---- MODULE Spec2Model ----
(***************************************************************************)
(* A model of the weaveflow pipeline engine (src/weaveflow): the task      *)
(* descriptors WeaveMeta / RefineMeta, the reweave name mapping, and the   *)
(* Loom orchestrator that runs weave and refine tasks over one table.      *)
(*                                                                         *)
(* Conventions.  Column and parameter names are the integers 1..; their    *)
(* numeric order stands for the lexicographic order of the strings.  A     *)
(* Python dict is a sequence of <<key, value>> pairs with distinct keys,   *)
(* in insertion order.  An optional value (None or x) is <<>> or <<x>>.    *)
(* Column contents, scalars and results of task bodies are terms, encoded  *)
(* as sequences of integers: task bodies are uninterpreted deterministic   *)
(* functions of the keyword arguments they are called with.                *)
(***************************************************************************)
EXTENDS Integers, Sequences, FiniteSets, TLC

\* ------------------------------------------------------------------ bounds
\* longest task list handed to Loom
MaxTasks == 2
\* names the generic mappings and override dicts range over
NumNames == 3
\* longest generic name mapping handed to reweave
MaxMap == 2
\* attribute reads a caller makes of the descriptors
MaxReads == 2
\* tasks derived with reweave
MaxDerived == 2

\* ------------------------------------------------------------- Python dicts
Range(s) == {s[i] : i \in DOMAIN s}

RECURSIVE SortedSeq(_)
\* sorted(list(S)) for a set of names
SortedSeq(S) ==
    IF S = {} THEN <<>>
    ELSE LET m == CHOOSE x \in S : \A y \in S : x <= y
         IN <<m>> \o SortedSeq(S \ {m})

DictKeys(d) == {d[i][1] : i \in DOMAIN d}

DictHas(d, k) == k \in DictKeys(d)

DictIdx(d, k) == CHOOSE i \in DOMAIN d : d[i][1] = k

\* d.get(k, dflt)
DictGet(d, k, dflt) == IF DictHas(d, k) THEN d[DictIdx(d, k)][2] ELSE dflt

\* d[k] = v
DictSet(d, k, v) ==
    IF DictHas(d, k) THEN [d EXCEPT ![DictIdx(d, k)] = <<k, v>>]
    ELSE Append(d, <<k, v>>)

RECURSIVE DictUpdate(_, _)
\* d.update(e)
DictUpdate(d, e) ==
    IF e = <<>> THEN d
    ELSE DictUpdate(DictSet(d, Head(e)[1], Head(e)[2]), Tail(e))

dict_pop_nothing(d, k) == d

\* d.pop(k), for a key that is present
DictPop(d, k) == SelectSeq(d, LAMBDA e : e[1] # k)

\* the dict as a function of its keys (dict equality ignores insertion order)
DictFn(d) == [k \in DictKeys(d) |-> DictGet(d, k, <<>>)]

\* all dicts of at most n entries with keys in K and values in V
RECURSIVE DictsOver(_, _, _)
DictsOver(K, V, n) ==
    IF n = 0 THEN {<<>>}
    ELSE LET S == DictsOver(K, V, n - 1)
         IN S \cup {Append(d, <<k, v>>) :
                       d \in {x \in S : Len(x) = n - 1},
                       k \in K, v \in V}

WellFormedDict(d) == \A i, j \in DOMAIN d : d[i][1] = d[j][1] => i = j

\* ------------------------------------------------------------------- terms
NaN == <<0>>
ColumnData(c) == <<1, c>>
Scalar(v) == <<2, v>>

RECURSIVE EncodeKwargs(_, _)
\* the keyword arguments of one call, as a term: bindings in name order
EncodeKwargs(kw, names) ==
    IF names = <<>> THEN <<>>
    ELSE LET n == Head(names)
             v == DictGet(kw, n, NaN)
         IN <<n, Len(v)>> \o v \o EncodeKwargs(kw, Tail(names))

\* element k of what body fid returns when called with kw
BodyResult(fid, kw, k) == <<3, fid, k>> \o EncodeKwargs(kw, SortedSeq(DictKeys(kw)))

\* ------------------------------------------------------------ descriptors
None == <<>>
Some(x) == <<x>>

\* a WeaveMeta as the decorator builds it: no name mapping yet
WeaveMeta(rargs, oargs, outputs, params) ==
    [weave |-> TRUE, rargs |-> rargs, oargs |-> oargs, outputs |-> outputs,
     params |-> params, meta_mapping |-> None]

RefineMeta(description, name, on_method, params, params_object) ==
    [refine |-> TRUE, refine_description |-> description, refine_name |-> name,
     on_method |-> on_method, params |-> params, params_object |-> params_object]

NoWeaveMeta == WeaveMeta(<<>>, <<>>, <<>>, <<>>)
NoRefineMeta == RefineMeta(0, 0, None, <<>>, None)

\* What the Python function behind a task does when called.
\*   sig   the parameter names of its signature
\*   req   those of them that have no default value
\*   ret   "series" | "tuple" | "frame" | "scalar" | "none"   (weave bodies)
\*         "table"                                 (refine bodies)
\*   elems       elements of the returned tuple
\*   frame_cols  column names of the returned DataFrame (weave), or the
\*               columns a refine body adds
\*   own_index   the returned DataFrame carries a row the inputs do not have
\*   rows        what a refine body does to the rows: "same" | "drop" | "add"
Body(ret, sig, req, elems, frame_cols, own_index, rows) ==
    [ret |-> ret, sig |-> sig, req |-> req, elems |-> elems,
     frame_cols |-> frame_cols, own_index |-> own_index, rows |-> rows]

\* A task object: oid is the identity of the callable, name its __name__, fid
\* the function it forwards to.
WeaveTask(oid, name, fid, meta, body) ==
    [oid |-> oid, name |-> name, fid |-> fid, has_weave |-> TRUE,
     has_refine |-> FALSE, weave_meta |-> meta, refine_meta |-> NoRefineMeta,
     body |-> body]

RefineTask(oid, name, fid, meta, body) ==
    [oid |-> oid, name |-> name, fid |-> fid, has_weave |-> FALSE,
     has_refine |-> TRUE, weave_meta |-> NoWeaveMeta, refine_meta |-> meta,
     body |-> body]

is_weave(f) == f.has_weave
is_refine(f) == f.has_refine

\* reweave(f, meta) with a dict argument Some(d), or a non-dict argument None.
\* The wrapper is a new callable (new_oid) forwarding to the same function.
reweave(f, meta, new_oid) ==
    IF meta = None THEN f
    ELSE [f EXCEPT !.oid = new_oid,
                   !.weave_meta.meta_mapping = Some(meta[1])]

\* ------------------------------------------------------------------ tables
\* A DataFrame: its columns in order (names may repeat) and its row index.
Table(cols, index) == [cols |-> cols, index |-> index]
Col(name, val) == [name |-> name, val |-> val]

ColumnNames(df) == {df.cols[j].name : j \in DOMAIN df.cols}
ColumnSeq(df) == [j \in DOMAIN df.cols |-> df.cols[j].name]

RECURSIVE FrameTerm(_)
FrameTerm(cols) ==
    IF cols = <<>> THEN <<>>
    ELSE <<Head(cols).name, Len(Head(cols).val)>> \o Head(cols).val
         \o FrameTerm(Tail(cols))

\* df[name]: the column, or the sub-frame of all columns of that name
TableGet(df, name) ==
    LET hits == SelectSeq(df.cols, LAMBDA c : c.name = name)
    IN IF Len(hits) = 1 THEN hits[1].val ELSE <<5, Len(hits)>> \o FrameTerm(hits)

\* ----------------------------------------------------- PandasWeave helpers
\* keys of the per-task overrides: a task name, or a task object
NameKey(n) == <<0, n>>
ObjKey(o) == <<1, o>>

\* x or y, for dicts
OrDict(x, y) == IF x # <<>> THEN x ELSE y

\* {oarg: global_optionals[oarg] for oarg in optional_args if oarg in global_optionals}
RECURSIVE GlobalSubset(_, _)
GlobalSubset(optional_args, global_optionals) ==
    IF optional_args = <<>> THEN <<>>
    ELSE LET o == Head(optional_args)
             rest == GlobalSubset(Tail(optional_args), global_optionals)
         IN IF DictHas(global_optionals, o)
            THEN DictUpdate(<<<<o, DictGet(global_optionals, o, NaN)>>>>, rest)
            ELSE rest

collect_optionals_global_wins(optionals, global_optionals, weave_name, optional_args, oid) ==
    LET task_optionals == OrDict(DictGet(optionals, NameKey(weave_name), <<>>),
                                 DictGet(optionals, ObjKey(oid), <<>>))
    IN DictUpdate(task_optionals, GlobalSubset(optional_args, global_optionals))

collect_optionals_for_task(optionals, global_optionals, weave_name, optional_args, oid) ==
    LET oargs == GlobalSubset(optional_args, global_optionals)
        task_optionals == OrDict(DictGet(optionals, NameKey(weave_name), <<>>),
                                 DictGet(optionals, ObjKey(oid), <<>>))
    IN DictUpdate(oargs, task_optionals)

optionals_after_aliased_update(optionals, global_optionals, weave_name, optional_args, oid) ==
    LET key == IF DictGet(optionals, NameKey(weave_name), <<>>) # <<>>
               THEN NameKey(weave_name) ELSE ObjKey(oid)
    IN IF DictHas(optionals, key)
       THEN DictSet(optionals, key,
                    DictUpdate(DictGet(optionals, key, <<>>),
                               GlobalSubset(optional_args, global_optionals)))
       ELSE optionals

\* self.optionals when _collect_optionals_for_task has returned: update() is
\* called on the new dict oargs, the dicts of self.optionals are only read
optionals_after_collect(optionals, global_optionals, weave_name, optional_args, oid) ==
    optionals

\* {v: k for k, v in name_map.items()}
InvMap(name_map) ==
    DictUpdate(<<>>, [j \in DOMAIN name_map |-> <<name_map[j][2], name_map[j][1]>>])

remap_forward_only(name_map, a) == DictGet(name_map, a, a)

\* name_map.get(a, inv_map.get(a, a))
remap(name_map, a) == DictGet(name_map, a, DictGet(InvMap(name_map), a, a))

\* name_map.get(o, o)
remap_output(name_map, o) == DictGet(name_map, o, o)

resolve_effective_names(weave_meta, required_args, optional_args, outputs) ==
    LET name_map == IF weave_meta.meta_mapping = None THEN <<>>
                    ELSE weave_meta.meta_mapping[1]
    IN [name_map |-> name_map,
        rargs_m |-> [j \in DOMAIN required_args |-> remap(name_map, required_args[j])],
        oargs_m |-> [j \in DOMAIN optional_args |-> remap(name_map, optional_args[j])],
        outs_m |-> [j \in DOMAIN outputs |-> remap_output(name_map, outputs[j])]]

KeyError(cols) == [type |-> "KeyError", cols |-> cols]
TypeError == [type |-> "TypeError", cols |-> <<>>]

check_intersection_unsorted(df, expected_cols) ==
    LET missing_cols == Range(expected_cols) \ ColumnNames(df)
    IN IF missing_cols # {}
       THEN Some(KeyError(SelectSeq(expected_cols, LAMBDA c : c \in missing_cols)))
       ELSE None

\* None, or the KeyError raised
check_intersection_columns_dataframe(df, expected_cols) ==
    LET missing_cols == Range(expected_cols) \ ColumnNames(df)
    IN IF missing_cols # {} THEN Some(KeyError(SortedSeq(missing_cols))) ELSE None

build_required_kwargs_unmapped(df, required_args, rargs_m) ==
    [j \in DOMAIN required_args |-> <<required_args[j], TableGet(df, required_args[j])>>]

\* {orig: df[mapped] for orig, mapped in zip(required_args, rargs_m)}
build_required_kwargs(df, required_args, rargs_m) ==
    [j \in DOMAIN required_args |-> <<required_args[j], TableGet(df, rargs_m[j])>>]

\* what a call returned, or how it failed
Result(form, vals, cols, own_index) ==
    [form |-> form, vals |-> vals, cols |-> cols, own_index |-> own_index]

NoResult == Result("none", <<>>, <<>>, FALSE)

Outcome(err, result) == [err |-> err, result |-> result]

\* weave_task(**rargs, **oargs, **params)
call_weave(weave_task, rargs, oargs, params) ==
    LET b == weave_task.body
        kr == DictKeys(rargs)
        ko == DictKeys(oargs)
        kp == DictKeys(params)
        kw == rargs \o oargs \o params
        twice == (kr \cap ko) \cup (kr \cap kp) \cup (ko \cap kp)
        val(k) == BodyResult(weave_task.fid, kw, k)
    IN IF twice # {} THEN Outcome(Some(TypeError), NoResult)
       ELSE IF ~((kr \cup ko \cup kp) \subseteq b.sig) THEN Outcome(Some(TypeError), NoResult)
       ELSE IF ~(b.req \subseteq (kr \cup ko \cup kp)) THEN Outcome(Some(TypeError), NoResult)
       ELSE CASE b.ret = "none" -> Outcome(None, NoResult)
              [] b.ret = "series" -> Outcome(None, Result("series", <<val(1)>>, <<>>, FALSE))
              [] b.ret = "scalar" -> Outcome(None, Result("scalar", <<val(1)>>, <<>>, FALSE))
              [] b.ret = "tuple" ->
                   Outcome(None, Result("tuple", [k \in 1..b.elems |-> val(k)], <<>>, FALSE))
              [] b.ret = "frame" ->
                   Outcome(None, Result("frame", [k \in DOMAIN b.frame_cols |-> val(k)],
                                        b.frame_cols, b.own_index))

\* a row label the index does not hold yet
NewRow(index) == IF index = {} THEN 1
                 ELSE 1 + CHOOSE r \in index : \A q \in index : q <= r

RECURSIVE TupleTerm(_)
TupleTerm(vals) ==
    IF vals = <<>> THEN <<>>
    ELSE <<Len(Head(vals))>> \o Head(vals) \o TupleTerm(Tail(vals))

\* dict(zip(outputs, calculation_output, strict=False))
ZipDict(outputs, vals) ==
    LET n == IF Len(outputs) <= Len(vals) THEN Len(outputs) ELSE Len(vals)
    IN DictUpdate(<<>>, [j \in 1..n |-> <<outputs[j], vals[j]>>])

\* zip(outputs, calculation_output) of a value that cannot be iterated raises
dump_to_frame_raises(outputs, calculation_output) ==
    IF calculation_output.form = "scalar" /\ Len(outputs) # 1 THEN Some(TypeError)
    ELSE None

\* dump_to_frame(outputs, calculation_output, index=..., columns=...)
dump_to_frame(outputs, calculation_output, index, columns) ==
    IF calculation_output.form = "frame"
    THEN Table([j \in DOMAIN calculation_output.cols |->
                    Col(calculation_output.cols[j], calculation_output.vals[j])],
               IF calculation_output.own_index THEN index \cup {NewRow(index)} ELSE index)
    ELSE LET whole == IF calculation_output.form \in {"series", "scalar"}
                      THEN calculation_output.vals[1]
                      ELSE <<6>> \o TupleTerm(calculation_output.vals)
             calculation_output_dict ==
                 IF Len(outputs) = 1 THEN <<<<outputs[1], whole>>>>
                 ELSE ZipDict(outputs, calculation_output.vals)
         IN Table([j \in DOMAIN columns |->
                    Col(columns[j], DictGet(calculation_output_dict, columns[j], NaN))],
                  index)

extend_in_place(was_same) == was_same

\* self.database = pd.concat([...]): concat makes a new frame and the
\* attribute is bound to it, whatever object it named before
same_object_after_extend(was_same) == FALSE

\* pd.concat([database, calculation_output_frame], axis=1)
extend_database(database, calculation_output_frame) ==
    Table(database.cols \o calculation_output_frame.cols,
          database.index \cup calculation_output_frame.index)

DictKeyList(d) == [j \in DOMAIN d |-> d[j][1]]

WeaveRecord(outputs_m, rargs_m, oargs_m, params, delta_time) ==
    [outputs |-> outputs_m, rargs |-> rargs_m, oargs |-> oargs_m,
     params |-> DictKeyList(params), delta_time |-> delta_time]

record_weave_run_appending(collector, weave_name, outputs_m, rargs_m, oargs_m, params, delta_time) ==
    Append(collector, <<weave_name,
                        WeaveRecord(outputs_m, rargs_m, oargs_m, params, delta_time)>>)

\* self.weave_collector[self.weaveflow_name][weave_name] = {...}
record_weave_run(collector, weave_name, outputs_m, rargs_m, oargs_m, params, delta_time) ==
    DictSet(collector, weave_name,
            WeaveRecord(outputs_m, rargs_m, oargs_m, params, delta_time))

weave_step_declared_names(weave_task, df, optionals, global_optionals) ==
    LET weave_name == weave_task.name
        weave_meta == weave_task.weave_meta
        params == weave_meta.params
        required_args == weave_meta.rargs
        optional_args == weave_meta.oargs
        outputs == weave_meta.outputs
        oargs == collect_optionals_for_task(optionals, global_optionals, weave_name,
                                            optional_args, weave_task.oid)
        names == resolve_effective_names(weave_meta, required_args, optional_args, outputs)
        chk == check_intersection_columns_dataframe(df, names.rargs_m)
        rargs == build_required_kwargs(df, required_args, names.rargs_m)
        out == IF chk # None THEN Outcome(chk, NoResult)
               ELSE call_weave(weave_task, rargs, oargs, params)
    IN [weave_name |-> weave_name, params |-> params, oargs |-> oargs,
        rargs_m |-> required_args, oargs_m |-> optional_args, outs_m |-> outputs,
        checked |-> chk, rargs |-> IF chk # None THEN <<>> ELSE rargs,
        err |-> out.err, calculation_output |-> out.result]

\* What _run_weave_task computes for one task against table df, up to and
\* including the call: the optionals, the resolved names, the column check,
\* the keyword arguments and the outcome of the call.
weave_step(weave_task, df, optionals, global_optionals) ==
    LET weave_name == weave_task.name
        weave_meta == weave_task.weave_meta
        params == weave_meta.params
        required_args == weave_meta.rargs
        optional_args == weave_meta.oargs
        outputs == weave_meta.outputs
        oargs == collect_optionals_for_task(optionals, global_optionals, weave_name,
                                            optional_args, weave_task.oid)
        names == resolve_effective_names(weave_meta, required_args, optional_args, outputs)
        chk == check_intersection_columns_dataframe(df, names.rargs_m)
        rargs == build_required_kwargs(df, required_args, names.rargs_m)
        out == IF chk # None THEN Outcome(chk, NoResult)
               ELSE call_weave(weave_task, rargs, oargs, params)
    IN [weave_name |-> weave_name, params |-> params, oargs |-> oargs,
        rargs_m |-> names.rargs_m, oargs_m |-> names.oargs_m, outs_m |-> names.outs_m,
        checked |-> chk, rargs |-> IF chk # None THEN <<>> ELSE rargs,
        err |-> out.err, calculation_output |-> out.result]

\* ------------------------------------------------------------ refine tasks
RefinedVal(fid, params, v) ==
    <<4, fid>> \o EncodeKwargs(params, SortedSeq(DictKeys(params))) \o <<Len(v)>> \o v

\* refine_task(df): the table the task returns
refine_body(refine_task, df) ==
    LET b == refine_task.body
        params == refine_task.refine_meta.params
        top == CHOOSE r \in df.index : \A q \in df.index : q <= r
        index == CASE b.rows = "same" -> df.index
                   [] b.rows = "drop" -> IF df.index = {} THEN {} ELSE df.index \ {top}
                   [] b.rows = "add" -> df.index \cup {NewRow(df.index)}
    IN IF b.rows = "same" /\ b.frame_cols = <<>> THEN df
       ELSE Table([j \in DOMAIN df.cols |->
                      Col(df.cols[j].name, RefinedVal(refine_task.fid, params, df.cols[j].val))]
                  \o [j \in DOMAIN b.frame_cols |->
                      Col(b.frame_cols[j], RefinedVal(refine_task.fid, params, <<j>>))],
                  index)

\* TaskProfiler(task, track_data=True, data=df).run(): the result and rows_reduced
profiler_run_rows_after(refine_task, df) ==
    LET rows_before == Cardinality(df.index)
        result == refine_body(refine_task, df)
    IN [result |-> result, rows_reduced |-> Cardinality(result.index) - rows_before]

profiler_run(refine_task, df) ==
    LET rows_before == Cardinality(df.index)
        result == refine_body(refine_task, df)
    IN [result |-> result, rows_reduced |-> rows_before - Cardinality(result.index)]

RefineRecord(on_method, params, params_object, description, delta_time, rows_reduced) ==
    [on_method |-> on_method, params |-> params, params_object |-> params_object,
     description |-> description, delta_time |-> delta_time,
     rows_reduced |-> rows_reduced]

\* self.refine_collector[self.weaveflow_name][refine_task_name] = {...}
record_refine_run(collector, refine_task_name, on_method, params, params_object, description, delta_time, rows_reduced) ==
    DictSet(collector, refine_task_name,
            RefineRecord(on_method, params, params_object, description, delta_time,
                         rows_reduced))

\* ------------------------------------------------------------ the task pool
\* Names: 1 "a", 2 "b", 3 "m", 4 "s", 5 "p", 6 "q", 7 "x", 8 "u", 9 "z".
\* Task names (__name__) are 11.., callables 101.., function bodies 201...

\* @weave("s") def add(a, b): return a + b
add == WeaveTask(101, 11, 201, WeaveMeta(<<1, 2>>, <<>>, <<4>>, <<>>),
                 Body("series", {1, 2}, {1, 2}, 0, <<>>, FALSE, "same"))

\* reweave(add, {"a": "b", "b": "a"}): the same __name__ as add
add_sw == reweave(add, Some(<<<<1, 2>>, <<2, 1>>>>), 111)

\* @weave(["p", "q"]) def stats(s, a, m=0): return DataFrame({"p": .., "q": ..})
stats == WeaveTask(102, 12, 202, WeaveMeta(<<4, 1>>, <<3>>, <<5, 6>>, <<>>),
                   Body("frame", {4, 1, 3}, {4, 1}, 0, <<5, 6>>, FALSE, "same"))

\* reweave(stats, {"s": "b", "p": "x"})
stats_r == reweave(stats, Some(<<<<4, 2>>, <<5, 7>>>>), 103)

\* @weave("x") def skip(a): return None
skip == WeaveTask(104, 13, 203, WeaveMeta(<<1>>, <<>>, <<7>>, <<>>),
                  Body("none", {1}, {1}, 0, <<>>, FALSE, "same"))

\* @weave(["p", "q"]) def mult(s, b, m=1): return s * b, s / b + m
mult == WeaveTask(105, 14, 204, WeaveMeta(<<4, 2>>, <<3>>, <<5, 6>>, <<>>),
                  Body("tuple", {4, 2, 3}, {4, 2}, 2, <<>>, FALSE, "same"))

\* reweave(mult, {"x": "s", "q": "u"}): "s" is found by the inverse lookup
mult_r == reweave(mult, Some(<<<<7, 4>>, <<6, 8>>>>), 106)

\* @weave("s", params_from=Config) def scaled(a, z): ...; Config() has z = 7
scaled == WeaveTask(107, 15, 205, WeaveMeta(<<1>>, <<>>, <<4>>, <<<<9, Scalar(7)>>>>),
                    Body("series", {1, 9}, {1, 9}, 0, <<>>, FALSE, "same"))

\* @weave(["t", "w"]) def total(a): return a.sum()
total == WeaveTask(112, 19, 209, WeaveMeta(<<1>>, <<>>, <<10, 11>>, <<>>),
                   Body("scalar", {1}, {1}, 0, <<>>, FALSE, "same"))

\* @refine def touch(df): return df
touch == RefineTask(108, 16, 206, RefineMeta(0, 16, None, <<>>, None),
                    Body("table", {}, {}, 0, <<>>, FALSE, "same"))

\* @refine(description=1) def clean(df): return df.dropna()
clean == RefineTask(109, 17, 207, RefineMeta(1, 17, None, <<>>, None),
                    Body("table", {}, {}, 0, <<>>, FALSE, "drop"))

\* @refine(on_method="go", params_from=Config) class Grow: adds a row and column "x"
Grow == RefineTask(110, 18, 208,
                   RefineMeta(2, 18, Some(21), <<<<9, Scalar(7)>>>>, Some(31)),
                   Body("table", {}, {}, 0, <<7>>, FALSE, "add"))

Pool == {add, add_sw, stats, stats_r, skip, mult, mult_r, scaled, total, touch, clean, Grow}

RECURSIVE SeqsUpTo(_, _)
SeqsUpTo(S, n) ==
    IF n = 0 THEN {<<>>}
    ELSE LET R == SeqsUpTo(S, n - 1)
         IN R \cup {Append(q, e) : q \in {r \in R : Len(r) = n - 1}, e \in S}

\* the table of the test fixtures: columns a, b over three rows; and one that
\* holds x in the place of a
InitTables ==
    {Table(<<Col(1, ColumnData(1)), Col(2, ColumnData(2))>>, {1, 2, 3}),
     Table(<<Col(7, ColumnData(1)), Col(2, ColumnData(2))>>, {1, 2, 3})}

\* per-task overrides handed to Loom(optionals=...)
OptionalsChoices ==
    {<<>>,
     <<<<NameKey(12), <<<<3, Scalar(2)>>>>>>>>,
     <<<<ObjKey(103), <<<<3, Scalar(2)>>>>>>, <<NameKey(14), <<>>>>,
       <<ObjKey(105), <<<<3, Scalar(1)>>>>>>>>,
     <<<<NameKey(14), <<<<3, Scalar(1)>>>>>>, <<ObjKey(105), <<<<3, Scalar(2)>>>>>>>>,
     <<<<ObjKey(101), <<<<1, Scalar(1)>>>>>>, <<NameKey(13), <<<<8, Scalar(1)>>>>>>>>}

\* global overrides handed to Loom(**kwargs)
GlobalChoices ==
    {<<>>, <<<<3, Scalar(2)>>>>, <<<<8, Scalar(1)>>, <<3, Scalar(1)>>>>}

\* perf_counter differences
DeltaTimes == {0, 1}

\* ------------------------------------------------------------------ state
VARIABLES
    tasks,             \* Loom.tasks
    database,          \* Loom.database
    optionals,         \* Loom.optionals
    global_optionals,  \* Loom.global_optionals
    weave_collector,   \* Loom.weave_collector[weaveflow_name]
    refine_collector,  \* Loom.refine_collector[weaveflow_name]
    pc,                \* where run() stands: "idle", "loop", "merge", "done", "failed"
    i,                 \* position of the for loop of _run in tasks
    pending,           \* what _run_weave_task returned to _run
    err,               \* the exception that left run(), if any
    calls,             \* history: the calls made to task bodies
    db0,               \* history: the table the engine was constructed with
    caller_df,         \* the table object the caller gave to Loom(...), as it is now
    aliased,           \* whether Loom.database is that very object
    base_task,         \* name resolution: the weave task f
    mapping,           \* name resolution: the meta argument of reweave(f, meta)
    orig_table,        \* name resolution: the table f runs against
    renamed_table,     \* name resolution: the table reweave(f, meta) runs against
    resolved,          \* what _resolve_effective_names returned, once called
    base_out,          \* what _run_weave_task(f) returned, once called
    derived_out,       \* what _run_weave_task(reweave(f, meta)) returned, once called
    npc,               \* name resolution: "off", "resolve", "base", "derived", "done"
    heap,              \* descriptors: the list and dict objects, by identity
    metas,             \* descriptors: the WeaveMeta and RefineMeta objects
    callables,         \* descriptors: the task callables
    caller,            \* descriptors: the objects the calling code holds
    reads,             \* history: the attribute reads made
    derivs,            \* history: the reweave calls that derived a task
    ret,               \* history: the last operation and what it returned
    kept,              \* history: table and lineage when the previous task finished
    run_no,            \* which of two equally constructed engines is at work
    first,             \* history: what the first of the two engines ended with
    args,              \* the arguments Loom(...) is being called with
    fobjs,             \* functions and classes, and the wrappers made of them
    source,            \* what a parameter provider yields when called now
    snaps,             \* history: per object, what its decoration read
    res,               \* history: the last decorator call and its outcome
    task_collection,   \* WeaveMatrix._tasks
    matrix             \* what WeaveMatrix.build returned, once called

engine_vars == <<tasks, database, optionals, global_optionals, weave_collector,
                 refine_collector, pc, i, pending, err, calls, db0, kept,
                 caller_df, aliased>>

names_vars == <<base_task, mapping, orig_table, renamed_table, resolved, base_out,
                derived_out, npc>>

meta_vars == <<heap, metas, callables, caller, reads, derivs, ret>>

twice_vars == <<run_no, first>>

build_vars == <<args>>

deco_vars == <<fobjs, source, snaps, res>>

matrix_vars == <<task_collection, matrix>>

\* what the engine holds between two tasks
Kept(db, weaves, refines) ==
    [database |-> db, weave_collector |-> weaves, refine_collector |-> refines]

NoPending == [calculation_output |-> NoResult, outputs |-> <<>>, weave_name |-> 0]

\* one call of a task: its position in tasks, the callable, the table the
\* engine held, the keyword arguments by origin, and whether the call got
\* past argument binding into the body
Call(idx, oid, seen, rargs, oargs, params, entered) ==
    [idx |-> idx, oid |-> oid, seen |-> seen, rargs |-> rargs, oargs |-> oargs,
     params |-> params, entered |-> entered]

\* Loom(database, tasks, optionals=..., **kwargs), no column selection
EngineInitOver(pool) ==
    /\ tasks \in SeqsUpTo(pool, MaxTasks)
    /\ database \in InitTables
    /\ db0 = database
    /\ optionals \in OptionalsChoices
    /\ global_optionals \in GlobalChoices
    /\ weave_collector = <<>>
    /\ refine_collector = <<>>
    /\ pc = "idle"
    /\ i = 1
    /\ pending = NoPending
    /\ err = None
    /\ calls = <<>>
    /\ kept = Kept(database, <<>>, <<>>)
    /\ caller_df = database
    /\ aliased = TRUE

EngineInit == EngineInitOver(Pool)

\* no engine constructed
EngineIdle ==
    /\ tasks = <<>>
    /\ database = Table(<<>>, {})
    /\ db0 = database
    /\ optionals = <<>>
    /\ global_optionals = <<>>
    /\ weave_collector = <<>>
    /\ refine_collector = <<>>
    /\ pc = "off"
    /\ i = 1
    /\ pending = NoPending
    /\ err = None
    /\ calls = <<>>
    /\ kept = Kept(database, <<>>, <<>>)
    /\ caller_df = database
    /\ aliased = FALSE

\* no name resolution under way
NamesIdle ==
    /\ base_task = add
    /\ mapping = None
    /\ orig_table = Table(<<>>, {})
    /\ renamed_table = Table(<<>>, {})
    /\ resolved = None
    /\ base_out = None
    /\ derived_out = None
    /\ npc = "off"

NoRet == [op |-> "none", a |-> 0, b |-> 0, arg |-> <<"val", 0>>, raised |-> FALSE]

\* no descriptor objects
MetaIdle ==
    /\ heap = <<>>
    /\ metas = <<>>
    /\ callables = <<>>
    /\ caller = [made |-> {}, returned |-> {}]
    /\ reads = <<>>
    /\ derivs = <<>>
    /\ ret = NoRet

\* one engine, nothing to compare it with
TwiceIdle ==
    /\ run_no = 1
    /\ first = <<>>

\* no call of Loom(...) under way
BuildIdle == args = <<>>

\* no decorator applied, nothing to apply one to
DecoIdle ==
    /\ fobjs = <<>>
    /\ source = 0
    /\ snaps = <<>>
    /\ res = <<>>

\* no dependency matrix asked for
MatrixIdle ==
    /\ task_collection = <<>>
    /\ matrix = None

for_skip(j) == j + 2

\* for task in self.tasks: the position after j
for_next(j) == j + 1

next_pc(j) == IF j > Len(tasks) THEN "done" ELSE "loop"

\* run(): enter the loop of _run
Run ==
    /\ pc = "idle"
    /\ pc' = next_pc(1)
    /\ i' = 1
    /\ UNCHANGED <<tasks, database, optionals, global_optionals, weave_collector,
                   refine_collector, pending, err, calls, db0, kept,
                   caller_df, aliased>>
    /\ UNCHANGED names_vars
    /\ UNCHANGED meta_vars
    /\ UNCHANGED twice_vars
    /\ UNCHANGED build_vars
    /\ UNCHANGED deco_vars
    /\ UNCHANGED matrix_vars

\* _run_weave_task(task) for the task the loop stands at
RunWeaveTask ==
    /\ pc = "loop"
    /\ is_weave(tasks[i])
    /\ \E delta_time \in DeltaTimes :
        LET task == tasks[i]
            st == weave_step(task, database, optionals, global_optionals)
            call(entered) == Call(i, task.oid, database, st.rargs, st.oargs, st.params,
                                  entered)
        IN CASE st.checked # None ->
                  /\ pc' = "failed"
                  /\ err' = st.err
                  /\ UNCHANGED <<weave_collector, pending, calls>>
             [] st.checked = None /\ st.err # None ->
                  /\ pc' = "failed"
                  /\ err' = st.err
                  /\ calls' = Append(calls, call(FALSE))
                  /\ UNCHANGED <<weave_collector, pending>>
             [] st.checked = None /\ st.err = None ->
                  /\ weave_collector' =
                         record_weave_run(weave_collector, st.weave_name, st.outs_m,
                                          st.rargs_m, st.oargs_m, st.params, delta_time)
                  /\ pending' = [calculation_output |-> st.calculation_output,
                                 outputs |-> st.outs_m, weave_name |-> st.weave_name]
                  /\ calls' = Append(calls, call(TRUE))
                  /\ pc' = "merge"
                  /\ UNCHANGED err
    /\ optionals' = optionals_after_collect(optionals, global_optionals, tasks[i].name,
                                            tasks[i].weave_meta.oargs, tasks[i].oid)
    /\ UNCHANGED <<tasks, database, global_optionals, refine_collector, i, db0, kept,
                   caller_df, aliased>>
    /\ UNCHANGED names_vars
    /\ UNCHANGED meta_vars
    /\ UNCHANGED twice_vars
    /\ UNCHANGED build_vars
    /\ UNCHANGED deco_vars
    /\ UNCHANGED matrix_vars

\* the rest of the loop body of _run for a weave task: prune or extend
MergeWeave ==
    /\ pc = "merge"
    /\ LET raised == dump_to_frame_raises(pending.outputs, pending.calculation_output)
       IN IF pending.calculation_output.form = "none"
          THEN /\ weave_collector' = DictPop(weave_collector, pending.weave_name)
               /\ pending' = NoPending
               /\ i' = for_next(i)
               /\ pc' = next_pc(for_next(i))
               /\ UNCHANGED <<database, err, caller_df, aliased>>
          ELSE IF raised # None
          THEN /\ pc' = "failed"
               /\ err' = raised
               /\ UNCHANGED <<database, weave_collector, pending, i, caller_df, aliased>>
          ELSE /\ database' = extend_database(database,
                                 dump_to_frame(pending.outputs, pending.calculation_output,
                                               database.index, pending.outputs))
               /\ aliased' = same_object_after_extend(aliased)
               /\ caller_df' = IF aliased' THEN database' ELSE caller_df
               /\ pending' = NoPending
               /\ i' = for_next(i)
               /\ pc' = next_pc(for_next(i))
               /\ UNCHANGED <<weave_collector, err>>
    /\ kept' = IF pc' = "failed" THEN kept
               ELSE Kept(database', weave_collector', refine_collector)
    /\ UNCHANGED <<tasks, optionals, global_optionals, refine_collector, calls, db0>>
    /\ UNCHANGED names_vars
    /\ UNCHANGED meta_vars
    /\ UNCHANGED twice_vars
    /\ UNCHANGED build_vars
    /\ UNCHANGED deco_vars
    /\ UNCHANGED matrix_vars

\* _run_refine_task(task) for the task the loop stands at
RunRefineTask ==
    /\ pc = "loop"
    /\ ~is_weave(tasks[i])
    /\ is_refine(tasks[i])
    /\ \E delta_time \in DeltaTimes :
        LET refine_task == tasks[i]
            refine_meta == refine_task.refine_meta
            prof == profiler_run(refine_task, database)
        IN /\ database' = prof.result
           /\ aliased' = FALSE
           /\ UNCHANGED caller_df
           /\ refine_collector' =
                  record_refine_run(refine_collector, refine_meta.refine_name,
                                    refine_meta.on_method, DictKeyList(refine_meta.params),
                                    refine_meta.params_object,
                                    refine_meta.refine_description, delta_time,
                                    prof.rows_reduced)
           /\ calls' = Append(calls, Call(i, refine_task.oid, database, <<>>, <<>>,
                                          refine_meta.params, TRUE))
    /\ i' = for_next(i)
    /\ pc' = next_pc(for_next(i))
    /\ kept' = Kept(database', weave_collector, refine_collector')
    /\ UNCHANGED <<tasks, optionals, global_optionals, weave_collector, pending, err, db0>>
    /\ UNCHANGED names_vars
    /\ UNCHANGED meta_vars
    /\ UNCHANGED twice_vars
    /\ UNCHANGED build_vars
    /\ UNCHANGED deco_vars
    /\ UNCHANGED matrix_vars

vars == <<engine_vars, names_vars, meta_vars, twice_vars, build_vars, deco_vars,
          matrix_vars>>

Init == EngineInit /\ NamesIdle /\ MetaIdle /\ TwiceIdle /\ BuildIdle /\ DecoIdle /\ MatrixIdle

Next == Run \/ RunWeaveTask \/ MergeWeave \/ RunRefineTask

Spec == Init /\ [][Next]_vars

\* ------------------------------------------------------------------ claims
\* what one task leaves of table df when it completes
TaskEffect(task, df) ==
    IF is_weave(task)
    THEN LET st == weave_step(task, df, optionals, global_optionals)
         IN IF st.calculation_output.form = "none" THEN df
            ELSE extend_database(df, dump_to_frame(st.outs_m, st.calculation_output,
                                                   df.index, st.outs_m))
    ELSE refine_body(task, df)

RECURSIVE Cumulative(_)
\* the initial table with the effects of tasks 1..k applied in list order
Cumulative(k) == IF k = 0 THEN db0 ELSE TaskEffect(tasks[k], Cumulative(k - 1))

\* C1: run() calls the tasks in list order, each once and one at a time: the
\* k-th call made is the call of tasks[k], the table it reads is the initial
\* table with the effects of tasks 1..k-1 applied, the loop stands at task i
\* only when tasks 1..i-1 are merged, and at the end every task was called.
C1_OrderedCumulative ==
    /\ \A k \in DOMAIN calls :
          /\ calls[k].idx = k
          /\ calls[k].oid = tasks[k].oid
          /\ calls[k].seen = Cumulative(k - 1)
    /\ pc \in {"loop", "done"} => Len(calls) = i - 1 /\ database = Cumulative(i - 1)
    /\ pc = "merge" => Len(calls) = i /\ database = Cumulative(i - 1)
    /\ pc = "failed" => Len(calls) \in {i - 1, i} /\ database = Cumulative(i - 1)
    /\ pc = "done" => i = Len(tasks) + 1

C1_Witness ==
    /\ pc = "done"
    /\ Len(calls) = 2
    /\ is_refine(tasks[1]) /\ is_weave(tasks[2])
    /\ calls[2].entered
    /\ calls[2].seen # db0
    /\ database # calls[2].seen

IsSortedStrict(q) == \A j, k \in DOMAIN q : j < k => q[j] < q[k]

\* the resolved required-input names of weave task t that df has no column for
MissingResolved(t, df) ==
    {n \in Range(resolve_effective_names(t.weave_meta, t.weave_meta.rargs,
                                         t.weave_meta.oargs, t.weave_meta.outputs).rargs_m) :
        \A j \in DOMAIN df.cols : df.cols[j].name # n}

\* C2: when the loop reaches a weave task with a resolved required-input name
\* that is no column of the table, the step ends run() with a KeyError listing
\* exactly the missing resolved names in sorted order; the task is not called
\* and the table and the lineage are as before.
C2_MissingColumns ==
    [][(pc = "loop" /\ is_weave(tasks[i]) /\ MissingResolved(tasks[i], database) # {})
        => /\ pc' = "failed"
           /\ err' # None
           /\ err'[1].type = "KeyError"
           /\ Range(err'[1].cols) = MissingResolved(tasks[i], database)
           /\ IsSortedStrict(err'[1].cols)
           /\ calls' = calls
           /\ database' = database
           /\ weave_collector' = weave_collector]_vars

C2_Witness ==
    /\ pc = "failed"
    /\ err # None
    /\ err[1].type = "KeyError"
    /\ Len(err[1].cols) = 2
    /\ tasks[i].weave_meta.meta_mapping = None
    /\ Len(calls) = i - 1

\* the task-specific overrides of task t: those under its name, or when there
\* are none, those under the task object
TaskSpecific(t) ==
    LET byname == IF \E j \in DOMAIN optionals : optionals[j][1] = NameKey(t.name)
                  THEN DictFn(optionals)[NameKey(t.name)] ELSE <<>>
        byobj == IF \E j \in DOMAIN optionals : optionals[j][1] = ObjKey(t.oid)
                 THEN DictFn(optionals)[ObjKey(t.oid)] ELSE <<>>
    IN IF Len(byname) > 0 THEN byname ELSE byobj

OverrideValues == {Scalar(1), Scalar(2)}

\* C3: the optional keyword arguments of every call of a weave task are the
\* task-specific overrides, plus the global overrides of those declared
\* optional inputs the task-specific ones do not define; nothing else.  So an
\* override of an optional input gives the same arguments and the same result
\* whether given globally, under the task's name or under the task object.
C3_OptionalArguments ==
    \A k \in DOMAIN calls :
        is_weave(tasks[k]) =>
            LET t == tasks[k]
                passed == calls[k].oargs
                ts == TaskSpecific(t)
                declared == Range(t.weave_meta.oargs)
                g == global_optionals
            IN /\ WellFormedDict(passed)
               /\ \A n \in DictKeys(passed) \cup DictKeys(ts) \cup DictKeys(g) \cup declared :
                     IF n \in DictKeys(ts) THEN /\ n \in DictKeys(passed)
                                                /\ DictFn(passed)[n] = DictFn(ts)[n]
                     ELSE IF n \in declared /\ n \in DictKeys(g)
                          THEN /\ n \in DictKeys(passed)
                               /\ DictFn(passed)[n] = DictFn(g)[n]
                          ELSE n \notin DictKeys(passed)
               /\ \A p \in declared, v \in OverrideValues :
                     LET as_global == collect_optionals_for_task(
                                          <<>>, <<<<p, v>>>>, t.name, t.weave_meta.oargs, t.oid)
                         by_name == collect_optionals_for_task(
                                          <<<<NameKey(t.name), <<<<p, v>>>>>>>>, <<>>,
                                          t.name, t.weave_meta.oargs, t.oid)
                         by_obj == collect_optionals_for_task(
                                          <<<<ObjKey(t.oid), <<<<p, v>>>>>>>>, <<>>,
                                          t.name, t.weave_meta.oargs, t.oid)
                     IN /\ as_global = <<<<p, v>>>>
                        /\ by_name = as_global
                        /\ by_obj = as_global
                        /\ call_weave(t, calls[k].rargs, as_global, calls[k].params)
                             = call_weave(t, calls[k].rargs, by_name, calls[k].params)

\* a call whose optional input m is defined both globally and for the task,
\* with different values
C3_Witness ==
    \E k \in DOMAIN calls :
        /\ is_weave(tasks[k])
        /\ calls[k].entered
        /\ 3 \in DictKeys(TaskSpecific(tasks[k]))
        /\ 3 \in DictKeys(global_optionals)
        /\ 8 \in DictKeys(global_optionals)
        /\ DictFn(TaskSpecific(tasks[k]))[3] # DictFn(global_optionals)[3]

\* C8: when the call of a weave task returned None, the merge step leaves the
\* table as it was, leaves no lineage record under the task's name, raises
\* nothing and moves the loop on to the next task (or ends the run after the
\* last one).
C8_SentinelSkips ==
    [][(pc = "merge" /\ pending.calculation_output.form = "none")
        => /\ database' = database
           /\ ~DictHas(weave_collector', tasks[i].name)
           /\ err' = None
           /\ i' = i + 1
           /\ pc' = IF i = Len(tasks) THEN "done" ELSE "loop"
           /\ calls' = calls]_vars

\* a run that went past a None-returning first task and called the second
\* task on the untouched table
C8_Witness ==
    /\ pc = "done"
    /\ Len(calls) = 2
    /\ is_weave(tasks[1]) /\ tasks[1].body.ret = "none"
    /\ calls[1].entered /\ calls[2].entered
    /\ calls[2].seen = db0
    /\ ~DictHas(weave_collector, tasks[1].name)

\* C9 (as claimed): merging a non-None result appends exactly the resolved
\* output names, in declared order, to the column sequence and keeps the row
\* index, whatever the form of the result.
C9_MergedColumns ==
    [][(pc = "merge" /\ pending.calculation_output.form # "none")
        => /\ ColumnSeq(database') = ColumnSeq(database) \o pending.outputs
           /\ database'.index = database.index]_vars

\* C10: running a refine task calls it with the whole current table, replaces
\* the table by what it returns and stores, under the task's name, a record
\* with rows_reduced = rows before - rows after, the method, the names of the
\* injected parameters, the provider name and the description; other records
\* stay as they were.
C10_RefineStep ==
    [][(pc = "loop" /\ ~is_weave(tasks[i]) /\ is_refine(tasks[i]))
        => LET t == tasks[i]
               m == t.refine_meta
               rec == DictFn(refine_collector')[t.name]
           IN /\ Len(calls') = Len(calls) + 1
              /\ calls'[Len(calls')].idx = i
              /\ calls'[Len(calls')].seen = database
              /\ database' = refine_body(t, database)
              /\ DictHas(refine_collector', t.name)
              /\ rec.rows_reduced = Cardinality(database.index) - Cardinality(database'.index)
              /\ rec.on_method = m.on_method
              /\ Range(rec.params) = DictKeys(m.params)
              /\ Len(rec.params) = Len(m.params)
              /\ rec.params_object = m.params_object
              /\ rec.description = m.refine_description
              /\ \A n \in DictKeys(refine_collector) \cup DictKeys(refine_collector') :
                    n # t.name => /\ n \in DictKeys(refine_collector)
                                  /\ n \in DictKeys(refine_collector')
                                  /\ DictFn(refine_collector')[n] = DictFn(refine_collector)[n]
              /\ weave_collector' = weave_collector]_vars

\* a finished run whose refine lineage holds a record with rows added and one
\* with rows removed
C10_Witness ==
    /\ pc = "done"
    /\ \E n \in DictKeys(refine_collector) :
          /\ DictFn(refine_collector)[n].rows_reduced < 0
          /\ DictFn(refine_collector)[n].params # <<>>
    /\ \E n \in DictKeys(refine_collector) : DictFn(refine_collector)[n].rows_reduced > 0
    /\ Cardinality(database.index) = Cardinality(db0.index)

\* --------------------------------------------- name resolution, in isolation
\* One weave task f, one meta argument, and the two runs the adaptation of
\* names is about: f against a table under f's own names, reweave(f, meta)
\* against a table under the names the mapping relates them to.
Names == 1..NumNames

\* required_args of the generic tasks: one or two distinct names
ArgLists == {<<a>> : a \in Names} \cup
            {<<p[1], p[2]>> : p \in {q \in Names \X Names : q[1] # q[2]}}

\* @weave(outputs=[o]) def f(r..., o=default): one optional argument, which
\* shares its name with the output column
NameTask(r, o) ==
    WeaveTask(120, 20, 220, WeaveMeta(r, <<o>>, <<o>>, <<>>),
              Body("series", Range(r) \cup {o}, Range(r), 0, <<>>, FALSE, "same"))

NameTasks == UNION {{NameTask(r, o) : o \in Names \ Range(r)} : r \in ArgLists}

\* what reweave is handed: a non-dict (None), or a dict over the names
Mappings == {None} \cup
            {Some(d) : d \in {x \in DictsOver(Names, Names, MaxMap) : WellFormedDict(x)}}

\* the dict a meta argument stands for
MappingDict(meta) == IF meta = None THEN <<>> ELSE meta[1]

\* the table f runs against: its required arguments under their own names
OrigTable(f) ==
    Table([j \in DOMAIN f.weave_meta.rargs |->
              Col(f.weave_meta.rargs[j], ColumnData(j))], {1, 2})

\* the names a mapping relates name a to, in either direction; a itself when
\* the mapping does not mention it
Related(d, a) ==
    LET R == {d[k][2] : k \in {x \in DOMAIN d : d[x][1] = a}} \cup
             {d[k][1] : k \in {x \in DOMAIN d : d[x][2] = a}}
    IN IF R = {} THEN {a} ELSE R

\* the required arguments of f whose data the renamed table holds under n
HeldUnder(f, d, n) ==
    {j \in DOMAIN f.weave_meta.rargs : n \in Related(d, f.weave_meta.rargs[j])}

\* a table holding the renamed columns exists: no name stands for two columns
Renamable(f, d) == \A n \in Names : Cardinality(HeldUnder(f, d, n)) <= 1

\* that table; with decoy, every other name holds data of no argument
RenamedTable(f, d, decoy) ==
    LET held == SelectSeq(SortedSeq(Names),
                          LAMBDA n : decoy \/ HeldUnder(f, d, n) # {})
    IN Table([k \in DOMAIN held |->
                 Col(held[k],
                     IF HeldUnder(f, d, held[k]) = {} THEN ColumnData(0)
                     ELSE ColumnData(CHOOSE j \in HeldUnder(f, d, held[k]) : TRUE))],
             {1, 2})

RenamedTables(f, meta) ==
    IF Renamable(f, MappingDict(meta))
    THEN {RenamedTable(f, MappingDict(meta), decoy) : decoy \in BOOLEAN}
    ELSE {OrigTable(f)}

NamesInit ==
    /\ base_task \in NameTasks
    /\ mapping \in Mappings
    /\ orig_table = OrigTable(base_task)
    /\ renamed_table \in RenamedTables(base_task, mapping)
    /\ resolved = None
    /\ base_out = None
    /\ derived_out = None
    /\ npc = "resolve"

\* the task reweave(f, meta) returns
DerivedTask == reweave(base_task, mapping, 121)

\* the optional argument is supplied engine-wide in both runs
NameGlobals == <<<<base_task.weave_meta.oargs[1], Scalar(1)>>>>

\* _resolve_effective_names on the derived task
ResolveNames ==
    /\ npc = "resolve"
    /\ resolved' = Some(resolve_effective_names(DerivedTask.weave_meta,
                                                DerivedTask.weave_meta.rargs,
                                                DerivedTask.weave_meta.oargs,
                                                DerivedTask.weave_meta.outputs))
    /\ npc' = "base"
    /\ UNCHANGED <<base_task, mapping, orig_table, renamed_table, base_out, derived_out>>
    /\ UNCHANGED engine_vars
    /\ UNCHANGED meta_vars
    /\ UNCHANGED twice_vars
    /\ UNCHANGED build_vars
    /\ UNCHANGED deco_vars
    /\ UNCHANGED matrix_vars

\* _run_weave_task(f) of an engine over the original table
RunBase ==
    /\ npc = "base"
    /\ base_out' = Some(weave_step(base_task, orig_table, <<>>, NameGlobals))
    /\ npc' = "derived"
    /\ UNCHANGED <<base_task, mapping, orig_table, renamed_table, resolved, derived_out>>
    /\ UNCHANGED engine_vars
    /\ UNCHANGED meta_vars
    /\ UNCHANGED twice_vars
    /\ UNCHANGED build_vars
    /\ UNCHANGED deco_vars
    /\ UNCHANGED matrix_vars

\* _run_weave_task(reweave(f, meta)) of an engine over the renamed table
RunDerived ==
    /\ npc = "derived"
    /\ derived_out' = Some(weave_step(DerivedTask, renamed_table, <<>>, NameGlobals))
    /\ npc' = "done"
    /\ UNCHANGED <<base_task, mapping, orig_table, renamed_table, resolved, base_out>>
    /\ UNCHANGED engine_vars
    /\ UNCHANGED meta_vars
    /\ UNCHANGED twice_vars
    /\ UNCHANGED build_vars
    /\ UNCHANGED deco_vars
    /\ UNCHANGED matrix_vars

NamesNext == ResolveNames \/ RunBase \/ RunDerived

NamesStart == EngineIdle /\ NamesInit /\ MetaIdle /\ TwiceIdle /\ BuildIdle /\ DecoIdle /\ MatrixIdle

SpecNames == NamesStart /\ [][NamesNext]_vars

\* the entries of dict d whose key, or whose value, is name n
KeyedBy(d, n) == {k \in DOMAIN d : d[k][1] = n}
ValuedBy(d, n) == {k \in DOMAIN d : d[k][2] = n}

\* r is what an input name n is to resolve to under dict d
InputResolution(d, n, r) ==
    IF KeyedBy(d, n) # {} THEN \A k \in KeyedBy(d, n) : r = d[k][2]
    ELSE IF ValuedBy(d, n) # {}
         THEN \E k \in ValuedBy(d, n) : /\ r = d[k][1]
                                        /\ \A l \in ValuedBy(d, n) : l <= k
         ELSE r = n

\* r is what an output name n is to resolve to under dict d
OutputResolution(d, n, r) ==
    IF KeyedBy(d, n) # {} THEN \A k \in KeyedBy(d, n) : r = d[k][2] ELSE r = n

\* C4: every required and optional input name n of the task resolves to
\* mapping[n] when n is a key of the mapping, otherwise to the key whose value
\* is n (the one inserted last, when several keys hold n), otherwise to n;
\* every output name resolves to mapping[n] when n is a key and to n
\* otherwise; without a mapping every name resolves to itself.
C4_NameResolution ==
    resolved # None =>
        LET d == MappingDict(mapping)
            meta == base_task.weave_meta
            r == resolved[1]
        IN /\ Len(r.rargs_m) = Len(meta.rargs)
           /\ Len(r.oargs_m) = Len(meta.oargs)
           /\ Len(r.outs_m) = Len(meta.outputs)
           /\ \A j \in DOMAIN meta.rargs : InputResolution(d, meta.rargs[j], r.rargs_m[j])
           /\ \A j \in DOMAIN meta.oargs : InputResolution(d, meta.oargs[j], r.oargs_m[j])
           /\ \A j \in DOMAIN meta.outputs :
                  OutputResolution(d, meta.outputs[j], r.outs_m[j])
           /\ d = <<>> => /\ r.rargs_m = meta.rargs
                          /\ r.oargs_m = meta.oargs
                          /\ r.outs_m = meta.outputs

\* a required name resolved forward to another name, while the optional name
\* is no key but a value: as an input it resolves to the key, as an output to
\* itself
C4_Witness ==
    /\ resolved # None
    /\ LET d == MappingDict(mapping)
           meta == base_task.weave_meta
           r == resolved[1]
       IN /\ KeyedBy(d, meta.rargs[1]) # {}
          /\ r.rargs_m[1] # meta.rargs[1]
          /\ KeyedBy(d, meta.oargs[1]) = {}
          /\ ValuedBy(d, meta.oargs[1]) # {}
          /\ r.oargs_m[1] # meta.oargs[1]
          /\ r.outs_m[1] = meta.outputs[1]

\* the renamed table of the claim: the data of each required argument under
\* the names the mapping relates the argument to
HoldsRenamedColumns ==
    /\ Renamable(base_task, MappingDict(mapping))
    /\ renamed_table \in {RenamedTable(base_task, MappingDict(mapping), decoy) :
                             decoy \in BOOLEAN}

\* C5: reweave(f, m) run against the table that holds the renamed columns
\* completes exactly when f run against the originally named columns does,
\* and returns the same output values.
C5_NameAdaptation ==
    (npc = "done" /\ HoldsRenamedColumns) =>
        /\ derived_out[1].err = None <=> base_out[1].err = None
        /\ derived_out[1].calculation_output = base_out[1].calculation_output

\* both runs completed with a result, the mapping renamed a required column,
\* and the renamed table holds other data under that column's original name
C5_Witness ==
    /\ npc = "done"
    /\ HoldsRenamedColumns
    /\ base_out[1].err = None
    /\ derived_out[1].err = None
    /\ base_out[1].calculation_output.form = "series"
    /\ derived_out[1].rargs_m # base_out[1].rargs_m
    /\ \E j \in DOMAIN base_task.weave_meta.rargs :
          /\ derived_out[1].rargs_m[j] # base_task.weave_meta.rargs[j]
          /\ base_task.weave_meta.rargs[j] \in ColumnNames(renamed_table)
          /\ TableGet(renamed_table, base_task.weave_meta.rargs[j])
                 # TableGet(orig_table, base_task.weave_meta.rargs[j])

\* ------------------------------------------------- descriptors as objects
\* Lists, dicts and descriptors are objects with an identity: heap[id] is the
\* content of container id, metas[k] a descriptor whose attributes hold
\* references to containers, callables[c] a task and the descriptor it carries.
ListObj(items) == [kind |-> "list", items |-> items]
DictObj(items) == [kind |-> "dict", items |-> items]
OpaqueObj == [kind |-> "object", items |-> <<>>]

Ref(id) == <<"ref", id>>
Val(v) == <<"val", v>>
IsRef(x) == x[1] = "ref"
NoneVal == Val(0)

WeaveFields == <<"_weave", "_rargs", "_oargs", "_outputs", "_params", "_meta_mapping">>
RefineFields == <<"_refine", "_refine_description", "_refine_name", "_on_method",
                  "_params", "_params_object">>

FieldsOf(cls) == IF cls = "WeaveMeta" THEN WeaveFields ELSE RefineFields

\* the attributes __getattribute__ copies, by the type it copies them as
ListFields(cls) == IF cls = "WeaveMeta" THEN {"_rargs", "_oargs", "_outputs"} ELSE {}
DictFields(cls) == IF cls = "WeaveMeta" THEN {"_params", "_meta_mapping"} ELSE {"_params"}

\* WeaveMeta(_weave=True, ...), attributes in field order
WeaveMetaObj(rargs, oargs, outputs, params, meta_mapping) ==
    [cls |-> "WeaveMeta",
     attrs |-> [n \in Range(WeaveFields) |->
                   CASE n = "_weave" -> Val(1)
                     [] n = "_rargs" -> rargs
                     [] n = "_oargs" -> oargs
                     [] n = "_outputs" -> outputs
                     [] n = "_params" -> params
                     [] n = "_meta_mapping" -> meta_mapping]]

RefineMetaObj(description, name, on_method, params, params_object) ==
    [cls |-> "RefineMeta",
     attrs |-> [n \in Range(RefineFields) |->
                   CASE n = "_refine" -> Val(1)
                     [] n = "_refine_description" -> description
                     [] n = "_refine_name" -> name
                     [] n = "_on_method" -> on_method
                     [] n = "_params" -> params
                     [] n = "_params_object" -> params_object]]

\* the result of an operation on the heap: the heap it leaves, the value it returns
HeapResult(h, val) == [heap |-> h, val |-> val]

getattribute_stored(h, obj, name) == HeapResult(h, obj.attrs[name])

\* WeaveMeta.__getattribute__ / RefineMeta.__getattribute__
getattribute(h, obj, name) ==
    LET val == obj.attrs[name]
    IN IF /\ IsRef(val)
          /\ \/ name \in ListFields(obj.cls) /\ h[val[2]].kind = "list"
             \/ name \in DictFields(obj.cls) /\ h[val[2]].kind = "dict"
       THEN HeapResult(Append(h, h[val[2]]), Ref(Len(h) + 1))
       ELSE HeapResult(h, val)

RECURSIVE replace_changes(_, _, _, _, _)
\* dataclasses.replace: changes[f.name] = getattr(obj, f.name) for every field
\* that is not given; the attribute values in field order
replace_changes(h, obj, names, name, new_val) ==
    IF names = <<>> THEN HeapResult(h, <<>>)
    ELSE LET got == IF Head(names) = name THEN HeapResult(h, new_val)
                    ELSE getattribute(h, obj, Head(names))
             rest == replace_changes(got.heap, obj, Tail(names), name, new_val)
         IN HeapResult(rest.heap, <<got.val>> \o rest.val)

\* dataclasses.replace(obj, name=new_val): the new descriptor
replace(h, obj, name, new_val) ==
    LET ch == replace_changes(h, obj, FieldsOf(obj.cls), name, new_val)
        names == FieldsOf(obj.cls)
    IN HeapResult(ch.heap,
                  [cls |-> obj.cls,
                   attrs |-> [n \in Range(names) |->
                                 ch.val[CHOOSE j \in DOMAIN names : names[j] = n]]])

dict_same(h, id) == HeapResult(h, Ref(id))

\* dict(meta)
dict_copy(h, id) == HeapResult(Append(h, h[id]), Ref(Len(h) + 1))

\* a callable: the descriptor its _weave_meta attribute holds, and the function
\* it forwards to
Callable(meta, fid, name) == [meta |-> meta, fid |-> fid, name |-> name]

\* reweave(f, meta) on objects: the heap, descriptors and callables it leaves
\* and the callable it returns
reweave_obj(h, ms, cs, f, meta) ==
    IF ~(IsRef(meta) /\ h[meta[2]].kind = "dict")
    THEN [heap |-> h, metas |-> ms, callables |-> cs, val |-> f]
    ELSE LET weave_meta == ms[cs[f].meta]
             copied == dict_copy(h, meta[2])
             new_meta == replace(copied.heap, weave_meta, "_meta_mapping", copied.val)
         IN [heap |-> new_meta.heap,
             metas |-> Append(ms, new_meta.val),
             callables |-> Append(cs, Callable(Len(ms) + 1, cs[f].fid, cs[f].name)),
             val |-> Len(cs) + 1]

\* "CHANGED", the value a caller writes into an object it holds
Changed == 99

Mutated(o) == \E j \in DOMAIN o.items :
                 IF o.kind = "list" THEN o.items[j] = Changed ELSE o.items[j][2] = Changed

\* m[first key] = "CHANGED" on a dict, l.append("CHANGED") on a list
Mutate(o) ==
    IF o.kind = "list" THEN [o EXCEPT !.items = Append(@, Changed)]
    ELSE IF o.items = <<>> THEN [o EXCEPT !.items = <<<<Changed, Changed>>>>]
    ELSE [o EXCEPT !.items = DictSet(@, o.items[1][1], Changed)]

\* meta.<name> = value on a frozen dataclass: FrozenInstanceError, a subclass
\* of AttributeError, and no attribute is set
setattr_frozen(obj, name) == [raised |-> TRUE, obj |-> obj]

\* the objects calling code builds to hand to reweave: a dict, and a list
\* handed over by mistake
CallerObjects == <<DictObj(<<<<1, 5>>, <<4, 6>>>>), ListObj(<<1, 5>>)>>

\* @weave(outputs=[s], params_from=...) def add(a, b, m=...), and a @refine task
\* with parameters: descriptors 1 and 2, carried by callables 1 and 2
BaseObjects ==
    [heap |-> <<ListObj(<<1, 2>>), ListObj(<<3>>), ListObj(<<4>>), DictObj(<<<<9, 7>>>>),
                DictObj(<<<<9, 7>>>>), OpaqueObj>>,
     metas |-> <<WeaveMetaObj(Ref(1), Ref(2), Ref(3), Ref(4), NoneVal),
                 RefineMetaObj(Val(1), Val(17), NoneVal, Ref(5), Ref(6))>>,
     callables |-> <<Callable(1, 201, 11), Callable(2, 207, 17)>>]

\* the same after add2 = reweave(add, {...}) with a dict the caller dropped
DerivedObjects ==
    LET b == BaseObjects
        h == Append(b.heap, DictObj(<<<<1, 5>>, <<4, 6>>>>))
        r == reweave_obj(h, b.metas, b.callables, 1, Ref(Len(h)))
    IN [heap |-> r.heap, metas |-> r.metas, callables |-> r.callables]

MetaInit(objects) ==
    /\ heap = objects.heap
    /\ metas = objects.metas
    /\ callables = objects.callables
    /\ caller = [made |-> {}, returned |-> {}]
    /\ reads = <<>>
    /\ derivs = <<>>
    /\ ret = NoRet

\* the returned objects that no longer hold what they held when returned
Dirty == {id \in caller.returned : Mutated(heap[id])}

\* x = meta.<name>
ReadField ==
    /\ Len(reads) < MaxReads
    /\ \E k \in DOMAIN metas : \E name \in Range(FieldsOf(metas[k].cls)) :
          LET got == getattribute(heap, metas[k], name)
          IN /\ heap' = got.heap
             /\ caller' = IF IsRef(got.val)
                          THEN [caller EXCEPT !.returned = @ \cup {got.val[2]}]
                          ELSE caller
             /\ reads' = Append(reads,
                                [meta |-> k, name |-> name, val |-> got.val,
                                 snap |-> IF IsRef(got.val) THEN got.heap[got.val[2]]
                                          ELSE OpaqueObj,
                                 dirty |-> Dirty])
             /\ ret' = [NoRet EXCEPT !.op = "read", !.a = k]
    /\ UNCHANGED <<metas, callables, derivs>>
    /\ UNCHANGED <<engine_vars, names_vars, twice_vars, build_vars, deco_vars, matrix_vars>>

\* the caller changes a list or dict it holds
MutateObject ==
    /\ \E id \in caller.made \cup caller.returned :
          /\ heap[id].kind # "object"
          /\ ~Mutated(heap[id])
          /\ heap' = [heap EXCEPT ![id] = Mutate(@)]
          /\ ret' = [NoRet EXCEPT !.op = "mutate", !.a = id]
    /\ UNCHANGED <<metas, callables, caller, reads, derivs>>
    /\ UNCHANGED <<engine_vars, names_vars, twice_vars, build_vars, deco_vars, matrix_vars>>

\* m = {...}, once for each kind of object
NewObject ==
    /\ \E c \in DOMAIN CallerObjects :
          /\ \A id \in caller.made : heap[id].kind # CallerObjects[c].kind
          /\ heap' = Append(heap, CallerObjects[c])
          /\ caller' = [caller EXCEPT !.made = @ \cup {Len(heap) + 1}]
          /\ ret' = [NoRet EXCEPT !.op = "new", !.a = Len(heap) + 1]
    /\ UNCHANGED <<metas, callables, reads, derivs>>
    /\ UNCHANGED <<engine_vars, names_vars, twice_vars, build_vars, deco_vars, matrix_vars>>

\* g = reweave(f, meta) with None or an object the caller holds
Reweave ==
    /\ \E f \in DOMAIN callables :
       \E meta \in {NoneVal} \cup {Ref(id) : id \in caller.made \cup caller.returned} :
          LET r == reweave_obj(heap, metas, callables, f, meta)
          IN /\ metas[callables[f].meta].cls = "WeaveMeta"
             /\ r.val # f => Len(derivs) < MaxDerived
             /\ heap' = r.heap
             /\ metas' = r.metas
             /\ callables' = r.callables
             /\ derivs' = IF r.val = f THEN derivs
                          ELSE Append(derivs, [f |-> f, arg |-> meta[2],
                                               snap |-> heap[meta[2]], result |-> r.val])
             /\ ret' = [NoRet EXCEPT !.op = "reweave", !.a = f, !.b = r.val, !.arg = meta]
    /\ UNCHANGED <<caller, reads>>
    /\ UNCHANGED <<engine_vars, names_vars, twice_vars, build_vars, deco_vars, matrix_vars>>

\* meta.<name> = value
AssignField ==
    /\ \E k \in DOMAIN metas : \E name \in Range(FieldsOf(metas[k].cls)) :
          LET r == setattr_frozen(metas[k], name)
          IN /\ metas' = [metas EXCEPT ![k] = r.obj]
             /\ ret' = [NoRet EXCEPT !.op = "assign", !.a = k, !.raised = r.raised]
    /\ UNCHANGED <<heap, callables, caller, reads, derivs>>
    /\ UNCHANGED <<engine_vars, names_vars, twice_vars, build_vars, deco_vars, matrix_vars>>

\* calling code reading, and trying to write, the descriptors of the tasks
MetaNext == ReadField \/ MutateObject \/ AssignField

MetaStart ==
    /\ EngineIdle /\ NamesIdle /\ TwiceIdle /\ BuildIdle /\ DecoIdle /\ MatrixIdle
    /\ (MetaInit(BaseObjects) \/ MetaInit(DerivedObjects))

SpecMeta == MetaStart /\ [][MetaNext]_vars

\* calling code deriving tasks with reweave
ReweaveNext == NewObject \/ Reweave \/ MutateObject

ReweaveStart == EngineIdle /\ NamesIdle /\ TwiceIdle /\ BuildIdle /\ DecoIdle /\ MatrixIdle /\ MetaInit(BaseObjects)

SpecReweave == ReweaveStart /\ [][ReweaveNext]_vars

\* what a descriptor holds under an attribute: the content of the object
\* referred to, or the plain value
Stored(h, obj, name) ==
    IF IsRef(obj.attrs[name]) THEN h[obj.attrs[name][2]]
    ELSE [kind |-> "value", items |-> <<obj.attrs[name][2]>>]

SameContent(x, y) == x.kind = y.kind /\ x.items = y.items

\* every descriptor that exists before a step is the same object holding the
\* same contents after it, and every callable carries the descriptor it carried
DescriptorsKept ==
    /\ \A k \in DOMAIN metas :
          /\ k \in DOMAIN metas'
          /\ metas'[k] = metas[k]
          /\ \A name \in Range(FieldsOf(metas[k].cls)) :
                SameContent(Stored(heap', metas'[k], name), Stored(heap, metas[k], name))
    /\ \A c \in DOMAIN callables : c \in DOMAIN callables' /\ callables'[c] = callables[c]

\* C6: reweave(f, mapping) with a dict returns a new callable for the same
\* function whose descriptor holds what f's descriptor holds, except that
\* _meta_mapping is a new dict equal to mapping; the call leaves f's descriptor
\* and every descriptor derived earlier as they were, a later change of the
\* caller's mapping object changes no descriptor, and a mapping that is not a
\* dict returns f itself and creates nothing.
C6_ReweaveCopies ==
    [][/\ (ret'.op = "reweave" \/ (ret'.op = "mutate" /\ ret'.a \in caller.made))
            => DescriptorsKept
       /\ (ret'.op = "reweave" /\ IsRef(ret'.arg) /\ heap[ret'.arg[2]].kind = "dict") =>
             LET f == ret'.a
                 g == ret'.b
                 old == metas[callables[f].meta]
             IN /\ g \notin DOMAIN callables
                /\ g \in DOMAIN callables'
                /\ callables'[g].fid = callables[f].fid
                /\ callables'[g].name = callables[f].name
                /\ callables'[g].meta \notin DOMAIN metas
                /\ LET new == metas'[callables'[g].meta]
                   IN /\ new.cls = old.cls
                      /\ \A name \in Range(WeaveFields) \ {"_meta_mapping"} :
                            SameContent(Stored(heap', new, name), Stored(heap, old, name))
                      /\ IsRef(new.attrs["_meta_mapping"])
                      /\ new.attrs["_meta_mapping"] # ret'.arg
                      /\ new.attrs["_meta_mapping"][2] \notin caller.made \cup caller.returned
                      /\ SameContent(Stored(heap', new, "_meta_mapping"),
                                     heap[ret'.arg[2]])
       /\ (ret'.op = "reweave" /\ ~(IsRef(ret'.arg) /\ heap[ret'.arg[2]].kind = "dict")) =>
             /\ ret'.b = ret'.a
             /\ heap' = heap
             /\ metas' = metas
             /\ callables' = callables
      ]_vars

\* two tasks were derived with the same dict, which the caller changed between
\* the two calls: the first derived descriptor still holds the mapping as it
\* was handed over, the second the changed one
C6_Witness ==
    /\ Len(derivs) = 2
    /\ derivs[1].arg = derivs[2].arg
    /\ ~Mutated(derivs[1].snap)
    /\ Mutated(derivs[2].snap)
    /\ Mutated(heap[derivs[1].arg])
    /\ SameContent(Stored(heap, metas[callables[derivs[1].result].meta], "_meta_mapping"),
                   derivs[1].snap)
    /\ SameContent(Stored(heap, metas[callables[derivs[2].result].meta], "_meta_mapping"),
                   derivs[2].snap)

\* the reads of the attributes that hold a list or a dict
ContainerRead(r) ==
    /\ r.name \in ListFields(metas[r.meta].cls) \cup DictFields(metas[r.meta].cls)
    /\ IsRef(metas[r.meta].attrs[r.name])

\* C7: two reads of a list or dict attribute of a WeaveMeta or RefineMeta
\* return two different objects with equal contents, neither of them the
\* stored object, whatever the caller did to the objects returned earlier;
\* changing a returned object changes no descriptor; assigning to an
\* attribute raises AttributeError and changes no descriptor.
C7_DefensiveCopies ==
    [][/\ \A j \in DOMAIN reads' :
             ContainerRead(reads'[j]) =>
                /\ IsRef(reads'[j].val)
                /\ reads'[j].val # metas[reads'[j].meta].attrs[reads'[j].name]
                /\ SameContent(reads'[j].snap,
                               Stored(heap', metas'[reads'[j].meta], reads'[j].name))
                /\ \A l \in DOMAIN reads' :
                      (l < j /\ reads'[l].meta = reads'[j].meta
                             /\ reads'[l].name = reads'[j].name) =>
                         /\ reads'[l].val # reads'[j].val
                         /\ SameContent(reads'[l].snap, reads'[j].snap)
       /\ (ret'.op = "mutate" /\ ret'.a \in caller.returned) => DescriptorsKept
       /\ ret'.op = "assign" => /\ ret'.raised
                                /\ DescriptorsKept
                                /\ heap' = heap
      ]_vars

\* a list or dict attribute was read, the object returned was changed, and the
\* attribute was read again: the second read returned the unchanged content
C7_Witness ==
    /\ Len(reads) = 2
    /\ reads[1].meta = reads[2].meta
    /\ reads[1].name = reads[2].name
    /\ ContainerRead(reads[1])
    /\ reads[1].val[2] \in reads[2].dirty
    /\ Mutated(heap[reads[1].val[2]])
    /\ ~Mutated(reads[2].snap)

\* the positions of the weave tasks that run() executed and that returned a
\* result other than None
Woven == {k \in DOMAIN tasks : is_weave(tasks[k]) /\ tasks[k].body.ret # "none"}

\* C11 (as claimed): when run() has completed, the weave lineage holds one
\* record for each executed weave task that returned a result, under that
\* task's name, and no other record, also when tasks of the list share a name.
C11_OneRecordPerTask ==
    pc = "done" =>
        /\ Len(weave_collector) = Cardinality(Woven)
        /\ DictKeys(weave_collector) = {tasks[k].name : k \in Woven}

\* C12: when _run_weave_task has returned, the record under the task's name
\* holds the resolved output, required and optional names of the task, the
\* names of its injected parameters and a duration; and the task was called
\* with its declared required names, each bound to the column the table holds
\* under the resolved name.
C12_LineageRecord ==
    pc = "merge" =>
        LET t == tasks[i]
            meta == t.weave_meta
            d == MappingDict(meta.meta_mapping)
            rec == DictGet(weave_collector, t.name, WeaveRecord(<<>>, <<>>, <<>>, <<>>, 0))
            c == calls[Len(calls)]
        IN /\ DictHas(weave_collector, t.name)
           /\ Len(rec.rargs) = Len(meta.rargs)
           /\ Len(rec.oargs) = Len(meta.oargs)
           /\ Len(rec.outputs) = Len(meta.outputs)
           /\ \A j \in DOMAIN meta.rargs : InputResolution(d, meta.rargs[j], rec.rargs[j])
           /\ \A j \in DOMAIN meta.oargs : InputResolution(d, meta.oargs[j], rec.oargs[j])
           /\ \A j \in DOMAIN meta.outputs :
                  OutputResolution(d, meta.outputs[j], rec.outputs[j])
           /\ Len(rec.params) = Len(meta.params)
           /\ \A j \in DOMAIN meta.params : rec.params[j] = meta.params[j][1]
           /\ rec.delta_time \in DeltaTimes
           /\ c.idx = i
           /\ c.entered
           /\ Len(c.rargs) = Len(meta.rargs)
           /\ \A j \in DOMAIN meta.rargs :
                 /\ c.rargs[j][1] = meta.rargs[j]
                 /\ rec.rargs[j] \in ColumnNames(database)
                 /\ c.rargs[j][2] = TableGet(database, rec.rargs[j])

\* a derived task whose mapping renames a required input has been called
\* and recorded
C12_Witness ==
    /\ pc = "merge"
    /\ tasks[i].weave_meta.meta_mapping # None
    /\ DictHas(weave_collector, tasks[i].name)
    /\ DictGet(weave_collector, tasks[i].name,
               WeaveRecord(<<>>, <<>>, <<>>, <<>>, 0)).rargs # tasks[i].weave_meta.rargs
    /\ calls[Len(calls)].entered

\* ------------------------------------------------- two engines, same options
\* the DataTransform tasks
WeavePool == {t \in Pool : is_weave(t)}

\* what an engine leaves behind when run() has returned or raised
Ended == [pc |-> pc, err |-> err, database |-> database,
          weave_collector |-> weave_collector]

\* a lineage collector without its delta_time values
StripTiming(collector) ==
    [k \in DOMAIN collector |->
        <<collector[k][1], [collector[k][2] EXCEPT !.delta_time = 0]>>]

\* Loom(df, tasks, optionals=optionals, **kwargs) a second time: the same task
\* objects, the same optionals and kwargs objects, a table equal to the first
Rebuild ==
    /\ run_no = 1
    /\ pc = "done"
    /\ first' = Ended
    /\ run_no' = 2
    /\ database' = db0
    /\ weave_collector' = <<>>
    /\ refine_collector' = <<>>
    /\ pc' = "idle"
    /\ i' = 1
    /\ pending' = NoPending
    /\ err' = None
    /\ calls' = <<>>
    /\ kept' = Kept(db0, <<>>, <<>>)
    /\ aliased' = FALSE
    /\ UNCHANGED <<tasks, optionals, global_optionals, db0, caller_df>>
    /\ UNCHANGED names_vars
    /\ UNCHANGED meta_vars
    /\ UNCHANGED build_vars
    /\ UNCHANGED deco_vars
    /\ UNCHANGED matrix_vars

TwiceStart ==
    /\ EngineInitOver(WeavePool)
    /\ NamesIdle
    /\ MetaIdle
    /\ TwiceIdle
    /\ BuildIdle
    /\ DecoIdle
    /\ MatrixIdle

TwiceNext == Run \/ RunWeaveTask \/ MergeWeave \/ Rebuild

SpecTwice == TwiceStart /\ [][TwiceNext]_vars

CallsOf(k) == {c \in DOMAIN calls : calls[c].idx = k}

\* C14 (as claimed): when run() has raised, the failing task was tried once,
\* no later task was invoked, and table and lineage are as they were when the
\* previous task finished.
C14_NothingCommitted ==
    pc = "failed" =>
        /\ err # None
        /\ Cardinality(CallsOf(i)) <= 1
        /\ \A c \in DOMAIN calls : calls[c].idx <= i
        /\ database = kept.database
        /\ weave_collector = kept.weave_collector
        /\ refine_collector = kept.refine_collector

\* ------------------------------------------------------------- Loom(...)
\* def unknown_task(col1): return col1 ** 2, carrying no descriptor
unknown_task ==
    [oid |-> 113, name |-> 20, fid |-> 210, has_weave |-> FALSE, has_refine |-> FALSE,
     weave_meta |-> NoWeaveMeta, refine_meta |-> NoRefineMeta,
     body |-> Body("series", {1}, {1}, 0, <<>>, FALSE, "same")]

InvalidLoomError(about) == [type |-> "InvalidLoomError", cols |-> about]
InvalidTaskTypeError(about) == [type |-> "InvalidTaskTypeError", cols |-> about]
AttributeError == [type |-> "AttributeError", cols |-> <<>>]
ValueError == [type |-> "ValueError", cols |-> <<>>]

\* the classes an exception of this type is an instance of
ClassesOf(type) ==
    CASE type = "InvalidTaskTypeError" -> {"InvalidTaskTypeError", "TypeError", "Exception"}
      [] type = "InvalidLoomError" -> {"InvalidLoomError", "Exception"}
      [] type = "KeyError" -> {"KeyError", "LookupError", "Exception"}
      [] OTHER -> {type, "Exception"}

\* a value handed in as database: a DataFrame, or an object of another type
FrameArg(df) == [type |-> "DataFrame", table |-> df]
OtherArg(type) == [type |-> type, table |-> Table(<<>>, {})]

\* a value handed in as optionals: None, a dict, or a list or str of items
OverridesArg(type, items) == [type |-> type, items |-> items]

\* bool(x) of such a value
truthy(x) == x.items # <<>>

\* dict.fromkeys(final_cols): the first occurrence of each name, in order
RECURSIVE fromkeys(_)
fromkeys(cols) ==
    IF cols = <<>> THEN <<>>
    ELSE LET init == fromkeys(SubSeq(cols, 1, Len(cols) - 1))
             last == cols[Len(cols)]
         IN IF last \in Range(init) THEN init ELSE Append(init, last)

\* the orders in which a set can be iterated
Orderings(S) == {q \in [1..Cardinality(S) -> S] : Range(q) = S}

infer_columns_first_weave(weave_tasks) ==
    IF weave_tasks = <<>> THEN {} ELSE Range(weave_tasks[1].weave_meta.rargs)

\* _infer_columns_from_weaves(weave_tasks), before its emptiness check
infer_columns_from_weaves(weave_tasks) ==
    UNION {Range(weave_tasks[k].weave_meta.rargs) : k \in DOMAIN weave_tasks}

\* check_intersection_columns_dataframe on what was handed in as database:
\* df.columns exists on a DataFrame only
check_columns_of(db, expected_cols) ==
    IF db.type # "DataFrame" THEN Some(AttributeError)
    ELSE check_intersection_columns_dataframe(db.table, expected_cols)

\* database[columns]
getitem_columns(db, columns) ==
    FrameArg(Table([j \in DOMAIN columns |->
                       Col(columns[j], TableGet(db.table, columns[j]))],
                   db.table.index))

Selected(e, db) == [err |-> e, database |-> db]

\* _pre_select_columns; the column options are None or lists of names, order
\* is the order in which the set of inferred names is iterated
pre_select_columns(db, infer_weave_columns, weave_tasks, refine_columns, weave_columns, columns, order) ==
    IF columns # None
    THEN LET chk == check_columns_of(db, columns[1])
         IN IF chk # None THEN Selected(chk, db)
            ELSE Selected(None, getitem_columns(db, columns[1]))
    ELSE LET final_refine_cols == IF refine_columns # None THEN refine_columns[1] ELSE <<>>
             inferring == weave_columns = None /\ infer_weave_columns
             raised == IF ~inferring THEN None
                       ELSE IF infer_columns_from_weaves(weave_tasks) = {}
                       THEN Some(ValueError)
                       ELSE IF db.type # "DataFrame" THEN Some(AttributeError)
                       ELSE None
             final_weave_cols ==
                 IF weave_columns # None THEN weave_columns[1]
                 ELSE IF infer_weave_columns
                 THEN SelectSeq(order, LAMBDA c : c \in ColumnNames(db.table))
                 ELSE <<>>
             final_cols == final_refine_cols \o final_weave_cols
             unique_final_cols == fromkeys(final_cols)
             chk == check_columns_of(db, unique_final_cols)
         IN IF raised # None THEN Selected(raised, db)
            ELSE IF final_cols = <<>> THEN Selected(None, db)
            ELSE IF chk # None THEN Selected(chk, db)
            ELSE Selected(None, getitem_columns(db, unique_final_cols))

\* WeaveTaskValidator(tasks).validate(): None, or the error raised
WeaveTaskValidator(weave_tasks) ==
    LET bad == {k \in DOMAIN weave_tasks : ~is_weave(weave_tasks[k])}
    IN IF bad = {} THEN None
       ELSE Some(InvalidTaskTypeError(
                <<weave_tasks[CHOOSE k \in bad : \A q \in bad : k <= q].oid>>))

\* LoomValidator(database, optionals, tasks).validate(): None, or the error
LoomValidator(db, optionals_arg, all_tasks) ==
    LET bad == {k \in DOMAIN all_tasks :
                    ~(is_weave(all_tasks[k]) \/ is_refine(all_tasks[k]))}
    IN IF db.type # "DataFrame" THEN Some(InvalidLoomError(<<>>))
       ELSE IF optionals_arg.type # "dict" THEN Some(InvalidLoomError(<<>>))
       ELSE IF bad = {} THEN None
       ELSE Some(InvalidLoomError(
                <<all_tasks[CHOOSE k \in bad : \A q \in bad : k <= q].oid>>))

\* Loom.__init__ up to its outcome: the error raised, or the attributes set
loom_init(a, order) ==
    LET all_tasks == a.tasks
        filtered_weave_tasks == SelectSeq(a.tasks, is_weave)
        sel == pre_select_columns(a.database, a.infer_weave_columns,
                                  filtered_weave_tasks, a.refine_columns,
                                  a.weave_columns, a.columns, order)
        self_optionals == IF truthy(a.optionals) THEN a.optionals
                          ELSE OverridesArg("dict", <<>>)
        e == IF sel.err # None THEN sel.err
             ELSE IF WeaveTaskValidator(filtered_weave_tasks) # None
             THEN WeaveTaskValidator(filtered_weave_tasks)
             ELSE LoomValidator(sel.database, self_optionals, all_tasks)
    IN [err |-> e, tasks |-> all_tasks, database |-> sel.database.table,
        optionals |-> self_optionals.items, global_optionals |-> a.kwargs]

\* Loom(database, tasks, optionals=..., columns=..., ...)
Construct ==
    /\ pc = "off"
    /\ \E order \in Orderings(infer_columns_from_weaves(SelectSeq(args.tasks, is_weave))) :
        LET made == loom_init(args, order)
        IN IF made.err # None
           THEN /\ pc' = "rejected"
                /\ err' = made.err
                /\ UNCHANGED <<tasks, database, optionals, global_optionals, db0, kept,
                               caller_df, aliased>>
           ELSE /\ pc' = "idle"
                /\ tasks' = made.tasks
                /\ database' = made.database
                /\ db0' = made.database
                /\ caller_df' = args.database.table
                \* database[cols] is a new frame; otherwise the argument itself
                /\ aliased' = (made.database = args.database.table)
                /\ optionals' = made.optionals
                /\ global_optionals' = made.global_optionals
                /\ kept' = Kept(made.database, <<>>, <<>>)
                /\ UNCHANGED err
    /\ UNCHANGED <<weave_collector, refine_collector, i, pending, calls>>
    /\ UNCHANGED names_vars
    /\ UNCHANGED meta_vars
    /\ UNCHANGED twice_vars
    /\ UNCHANGED build_vars
    /\ UNCHANGED deco_vars
    /\ UNCHANGED matrix_vars

BuildPool == {add, mult, touch, unknown_task}

DatabaseArgs ==
    {FrameArg(Table(<<Col(1, ColumnData(1)), Col(2, ColumnData(2))>>, {1, 2, 3})),
     FrameArg(Table(<<Col(7, ColumnData(7)), Col(2, ColumnData(2)), Col(1, ColumnData(1))>>,
                    {1, 2, 3})),
     OtherArg("NoneType"), OtherArg("list")}

\* None, {}, {"skip": {}}, [], [("skip", {})], ""
OptionalsArgs ==
    {OverridesArg("NoneType", <<>>), OverridesArg("dict", <<>>),
     OverridesArg("dict", <<<<NameKey(13), <<>>>>>>), OverridesArg("list", <<>>),
     OverridesArg("list", <<<<NameKey(13), <<>>>>>>), OverridesArg("str", <<>>)}

ColumnOptions(infer_weave_columns, refine_columns, weave_columns, columns) ==
    [infer_weave_columns |-> infer_weave_columns, refine_columns |-> refine_columns,
     weave_columns |-> weave_columns, columns |-> columns]

ColumnArgs ==
    {ColumnOptions(FALSE, None, None, None), ColumnOptions(FALSE, None, None, Some(<<1>>)),
     ColumnOptions(FALSE, Some(<<2>>), Some(<<1, 2>>), None),
     ColumnOptions(TRUE, None, None, None), ColumnOptions(TRUE, Some(<<5>>), None, None),
     ColumnOptions(TRUE, Some(<<7, 2>>), None, None),
     ColumnOptions(TRUE, None, Some(<<2>>), None),
     ColumnOptions(TRUE, None, None, Some(<<2, 1>>))}

BuildStart ==
    /\ EngineIdle
    /\ NamesIdle
    /\ MetaIdle
    /\ TwiceIdle
    /\ DecoIdle
    /\ MatrixIdle
    /\ \E d \in DatabaseArgs, o \in OptionalsArgs, c \in ColumnArgs,
          ts \in SeqsUpTo(BuildPool, MaxTasks) :
          args = [database |-> d, tasks |-> ts, optionals |-> o,
                  infer_weave_columns |-> c.infer_weave_columns,
                  refine_columns |-> c.refine_columns,
                  weave_columns |-> c.weave_columns, columns |-> c.columns,
                  kwargs |-> <<>>]

BuildNext == Construct \/ Run \/ RunWeaveTask \/ MergeWeave \/ RunRefineTask

SpecBuild == BuildStart /\ [][BuildNext]_vars

\* the first element of the task list that is neither a weave nor a refine task
Undecorated ==
    {k \in DOMAIN args.tasks : ~(is_weave(args.tasks[k]) \/ is_refine(args.tasks[k]))}

\* C15 (as claimed): a task list with an undecorated element makes Loom(...)
\* raise InvalidTaskTypeError, a TypeError, naming the element, and no task
\* has been invoked.
C15_InvalidTaskType ==
    (pc # "off" /\ Undecorated # {}) =>
        /\ pc = "rejected"
        /\ calls = <<>>
        /\ err # None
        /\ err[1].type = "InvalidTaskTypeError"
        /\ "TypeError" \in ClassesOf(err[1].type)
        /\ \E k \in Undecorated : err[1].cols = <<args.tasks[k].oid>>

\* C16 (as claimed): a database that is no DataFrame, or optionals that are
\* neither None nor a dict, make Loom(...) raise InvalidLoomError, whatever
\* the column options are.
C16_InvalidLoom ==
    (pc # "off" /\ (args.database.type # "DataFrame"
                    \/ args.optionals.type \notin {"NoneType", "dict"})) =>
        /\ pc = "rejected"
        /\ err # None
        /\ err[1].type = "InvalidLoomError"

\* ------------------------------------------------------ @weave and @refine
\* a function or class as the decorators see it: the parameters of its
\* signature without and with a default value, and the descriptors it carries
FuncObj(fid, name, isclass, required, optional) ==
    [fid |-> fid, name |-> name, isclass |-> isclass, required |-> required,
     optional |-> optional, has_weave |-> FALSE, has_refine |-> FALSE,
     weave_meta |-> NoWeaveMeta, refine_meta |-> NoRefineMeta]

\* the value given as nrargs: None, an int, or a float
NrArg(kind, val) == [kind |-> kind, val |-> val]

\* the value given as outputs: a str, a list, or an int; in a list, 0 stands
\* for an element that is not a str
OutArg(kind, names) == [kind |-> kind, names |-> names]

\* the object given as params_from; name 0 stands for None
Provider(name, iscallable, spool, named) ==
    [name |-> name, iscallable |-> iscallable, spool |-> spool, named |-> named]

NoProvider == Provider(0, FALSE, FALSE, FALSE)

ParamsFromIsNotASpoolError ==
    [type |-> "ParamsFromIsNotASpoolError", cols |-> <<>>]

Fetched(e, required, optional) == [err |-> e, required |-> required, optional |-> optional]

\* _get_function_args(f, nrargs)
get_function_args(f, nrargs) ==
    IF nrargs.kind \notin {"NoneType", "int"} THEN Fetched(Some(ValueError), <<>>, <<>>)
    ELSE IF nrargs.kind = "int" /\ nrargs.val < 0 THEN Fetched(Some(ValueError), <<>>, <<>>)
    ELSE IF nrargs.kind = "int" /\ nrargs.val > 0
    THEN IF f.optional # <<>> THEN Fetched(Some(ValueError), <<>>, <<>>)
         ELSE IF Len(f.required) < nrargs.val THEN Fetched(Some(ValueError), <<>>, <<>>)
         ELSE Fetched(None, SubSeq(f.required, 1, nrargs.val),
                      SubSeq(f.optional, nrargs.val + 1, Len(f.optional)))
    ELSE Fetched(None, f.required, f.optional)

Dumped(e, params, called) == [err |-> e, params |-> params, called |-> called]

\* _dump_object_to_dict(obj): obj() and the __dict__ of what it returns; src
\* is the value the provider gives its attribute "z" when it is called
dump_object_to_dict(obj, src) ==
    IF obj = NoProvider THEN Dumped(None, <<>>, FALSE)
    ELSE IF ~obj.iscallable THEN Dumped(Some(TypeError), <<>>, FALSE)
    ELSE Dumped(None, <<<<9, Scalar(src)>>>>, TRUE)

\* what applying a decorator comes to: the error raised, whether the very
\* object was returned, the descriptor attached, whether obj() was called
Applied(e, same, meta, called) ==
    [raised |-> e, same |-> same, meta |-> meta, called |-> called]

weave_rejects_decorated(f, outputs, nrargs, params_from, src) ==
    LET fa == get_function_args(f, nrargs)
        d == dump_object_to_dict(params_from, src)
        required_args == SelectSeq(fa.required, LAMBDA arg : ~DictHas(d.params, arg))
    IN IF params_from # NoProvider /\ nrargs.kind # "NoneType"
       THEN Applied(Some(ValueError), FALSE, None, FALSE)
       ELSE IF outputs.kind \notin {"str", "list"}
       THEN Applied(Some(ValueError), FALSE, None, FALSE)
       ELSE IF is_weave(f) THEN Applied(Some(TypeError), FALSE, None, FALSE)
       ELSE IF fa.err # None THEN Applied(fa.err, FALSE, None, FALSE)
       ELSE IF d.err # None THEN Applied(d.err, FALSE, None, FALSE)
       ELSE Applied(None, FALSE,
                    Some(WeaveMeta(required_args, fa.optional, outputs.names, d.params)),
                    d.called)

\* weave(outputs, nrargs, params_from)(f)
weave(f, outputs, nrargs, params_from, src) ==
    LET fa == get_function_args(f, nrargs)
        d == dump_object_to_dict(params_from, src)
        required_args == SelectSeq(fa.required, LAMBDA arg : ~DictHas(d.params, arg))
    IN IF params_from # NoProvider /\ nrargs.kind # "NoneType"
       THEN Applied(Some(ValueError), FALSE, None, FALSE)
       ELSE IF outputs.kind \notin {"str", "list"}
       THEN Applied(Some(ValueError), FALSE, None, FALSE)
       ELSE IF is_weave(f) THEN Applied(None, TRUE, None, FALSE)
       ELSE IF fa.err # None THEN Applied(fa.err, FALSE, None, FALSE)
       ELSE IF d.err # None THEN Applied(d.err, FALSE, None, FALSE)
       ELSE Applied(None, FALSE,
                    Some(WeaveMeta(required_args, fa.optional, outputs.names, d.params)),
                    d.called)

\* refine(description=..., on_method=..., params_from=...)(func_or_class);
\* 22 is the method name "run"
refine(f, description, on_method, params_from, src) ==
    LET d == dump_object_to_dict(params_from, src)
        params_object_name == IF params_from.named THEN Some(params_from.name) ELSE None
        method_to_run_name ==
            IF f.isclass THEN Some(IF on_method # None THEN on_method[1] ELSE 22)
            ELSE None
    IN IF is_refine(f) THEN Applied(None, TRUE, None, FALSE)
       ELSE IF d.err # None THEN Applied(d.err, FALSE, None, FALSE)
       ELSE IF ~f.isclass /\ on_method # None
       THEN Applied(Some(ValueError), FALSE, None, d.called)
       ELSE Applied(None, FALSE,
                    Some(RefineMeta(description, f.name, method_to_run_name, d.params,
                                    params_object_name)),
                    d.called)

\* params = weave_meta._params in _run_weave_task: the engine reads the
\* descriptor, whatever the provider would yield by now
run_params_reread(weave_meta, src) ==
    IF weave_meta.params = <<>> THEN <<>> ELSE <<<<9, Scalar(src)>>>>

run_params(weave_meta, src) == weave_meta.params

\* what the decoration of an object read from its provider
Snap(weave_params, refine_params) == [weave |-> weave_params, refine |-> refine_params]

NoNrargs == NrArg("NoneType", 0)

\* instances: how many times the provider was called in the operation
Res(op, target, returned, out, nrargs, params_from, kwargs) ==
    [op |-> op, target |-> target, returned |-> returned, raised |-> out.raised,
     attached |-> out.meta # None, nrargs |-> nrargs, params_from |-> params_from,
     instances |-> IF out.called THEN 1 ELSE 0, kwargs |-> kwargs]

NoRes ==
    Res("none", 0, 0, Applied(None, FALSE, None, FALSE), NoNrargs, NoProvider, <<>>)

\* @spool class Config, class Plain (no @spool), and the dict {"z": 7}
Config == Provider(31, TRUE, TRUE, TRUE)
Plain == Provider(32, TRUE, FALSE, TRUE)
Settings == Provider(33, FALSE, FALSE, FALSE)

Providers == {NoProvider, Config, Plain, Settings}

\* def scaled(a, z), def h(a, m=0), class Grow with __init__(self, df)
BaseFunctions ==
    {FuncObj(205, 15, FALSE, <<1, 9>>, <<>>), FuncObj(211, 23, FALSE, <<1>>, <<3>>),
     FuncObj(208, 18, TRUE, <<1>>, <<>>)}

\* "s" and ["p", "q"]
OutputArgs == {OutArg("str", <<4>>), OutArg("list", <<5, 6>>)}

\* [] and [0]
OtherOutputArgs == {OutArg("list", <<>>), OutArg("list", <<0>>)}

\* None, 2.0, -1, 0, 1, 3
NrargsArgs ==
    {NoNrargs, NrArg("float", 2), NrArg("int", 0 - 1), NrArg("int", 0), NrArg("int", 1),
     NrArg("int", 3)}

\* the argument lists weave is called with: every outputs with every provider,
\* every nrargs without a provider and with one, the other outputs alone
WeaveArgs ==
    {[outputs |-> o, nrargs |-> NoNrargs, params_from |-> p] :
        o \in OutputArgs, p \in Providers}
    \cup {[outputs |-> OutArg("str", <<4>>), nrargs |-> n, params_from |-> p] :
             n \in NrargsArgs, p \in {NoProvider, Config}}
    \cup {[outputs |-> o, nrargs |-> NoNrargs, params_from |-> NoProvider] :
             o \in OtherOutputArgs}

\* weave(outputs, nrargs, params_from) applied to one of the objects
ApplyWeave ==
    /\ fobjs # <<>>
    /\ \E k \in DOMAIN fobjs, a \in WeaveArgs :
        LET f == fobjs[k]
            outputs == a.outputs
            nrargs == a.nrargs
            params_from == a.params_from
            out == weave(f, outputs, nrargs, params_from, source)
            decorated == [f EXCEPT !.has_weave = TRUE, !.weave_meta = out.meta[1]]
            wrapper == [decorated EXCEPT !.isclass = FALSE]
            snapped == [snaps[k] EXCEPT !.weave = Some(out.meta[1].params)]
        IN /\ out.meta # None => Len(fobjs) < MaxDerived
           /\ fobjs' = IF out.meta = None THEN fobjs
                       ELSE Append([fobjs EXCEPT ![k] = decorated], wrapper)
           /\ snaps' = IF out.meta = None THEN snaps
                       ELSE Append([snaps EXCEPT ![k] = snapped], snapped)
           /\ res' = Res("weave", k,
                         IF out.same THEN k ELSE IF out.meta # None THEN Len(fobjs) + 1
                         ELSE 0,
                         out, nrargs, params_from, <<>>)
    /\ UNCHANGED source
    /\ UNCHANGED <<engine_vars, names_vars, meta_vars, twice_vars, build_vars, matrix_vars>>

\* refine(description=..., on_method=..., params_from=...) applied likewise;
\* a class is left as it is, its wrapper alone carries the descriptor
ApplyRefine ==
    /\ fobjs # <<>>
    /\ \E k \in DOMAIN fobjs, description \in {1}, on_method \in {None, Some(21)},
          params_from \in Providers :
        LET f == fobjs[k]
            out == refine(f, description, on_method, params_from, source)
            decorated == [f EXCEPT !.has_refine = TRUE, !.refine_meta = out.meta[1]]
            class_wrapper == [decorated EXCEPT !.isclass = FALSE, !.has_weave = FALSE,
                                               !.weave_meta = NoWeaveMeta]
            snapped == [snaps[k] EXCEPT !.refine = Some(out.meta[1].params)]
        IN /\ out.meta # None => Len(fobjs) < MaxDerived
           /\ fobjs' = IF out.meta = None THEN fobjs
                       ELSE IF f.isclass THEN Append(fobjs, class_wrapper)
                       ELSE Append([fobjs EXCEPT ![k] = decorated], decorated)
           /\ snaps' = IF out.meta = None THEN snaps
                       ELSE IF f.isclass
                       THEN Append(snaps, Snap(None, Some(out.meta[1].params)))
                       ELSE Append([snaps EXCEPT ![k] = snapped], snapped)
           /\ res' = Res("refine", k,
                         IF out.same THEN k ELSE IF out.meta # None THEN Len(fobjs) + 1
                         ELSE 0,
                         out, NoNrargs, params_from, <<>>)
    /\ UNCHANGED source
    /\ UNCHANGED <<engine_vars, names_vars, meta_vars, twice_vars, build_vars, matrix_vars>>

\* the provider's configuration changes: instantiating it yields another value
ChangeSource ==
    /\ fobjs # <<>>
    /\ \E v \in {7, 8} \ {source} : source' = v
    /\ res' = NoRes
    /\ UNCHANGED <<fobjs, snaps>>
    /\ UNCHANGED <<engine_vars, names_vars, meta_vars, twice_vars, build_vars, matrix_vars>>

\* _run_weave_task on one of the weave tasks, as far as its injected
\* parameters go
RunTask ==
    /\ fobjs # <<>>
    /\ \E k \in DOMAIN fobjs :
        /\ is_weave(fobjs[k])
        /\ res' = Res("run", k, 0, Applied(None, FALSE, None, FALSE), NoNrargs,
                      NoProvider, run_params(fobjs[k].weave_meta, source))
    /\ UNCHANGED <<fobjs, source, snaps>>
    /\ UNCHANGED <<engine_vars, names_vars, meta_vars, twice_vars, build_vars, matrix_vars>>

DecoStart ==
    /\ EngineIdle
    /\ NamesIdle
    /\ MetaIdle
    /\ TwiceIdle
    /\ BuildIdle
    /\ MatrixIdle
    /\ \E f \in BaseFunctions : fobjs = <<f>>
    /\ source = 7
    /\ snaps = <<Snap(None, None)>>
    /\ res = NoRes

DecoNext == ApplyWeave \/ ApplyRefine \/ ChangeSource \/ RunTask

SpecDeco == DecoStart /\ [][DecoNext]_vars

\* a decorator was applied in the last step, to an object not yet carrying
\* the descriptor of its kind
Registered ==
    /\ res.op \in {"weave", "refine"}
    /\ res.returned # res.target

\* C17 (as claimed): registering with a params_from object that was not
\* decorated with @spool raises ParamsFromIsNotASpoolError and attaches no
\* descriptor.
C17_NotASpool ==
    (Registered /\ res.params_from # NoProvider /\ ~res.params_from.spool) =>
        /\ res.raised = Some(ParamsFromIsNotASpoolError)
        /\ ~res.attached

\* C18 (as claimed): @weave with nrargs raises ValueError when nrargs is a
\* float or negative, and for every nrargs >= 0 when the function has a
\* parameter with a default or fewer than nrargs parameters without one.
C18_Arity ==
    (Registered /\ res.op = "weave") =>
        LET f == fobjs[res.target]
            n == res.nrargs
        IN /\ (n.kind = "float" \/ (n.kind = "int" /\ n.val < 0)) =>
                  res.raised = Some(ValueError)
           /\ (n.kind = "int" /\ n.val >= 0
               /\ (f.optional # <<>> \/ Len(f.required) < n.val)) =>
                  res.raised = Some(ValueError)

\* C19: the parameters a descriptor holds are those its decoration read from
\* the provider, read in one call; a run passes exactly them to the task and
\* calls no provider, whatever the provider would yield by then; and no
\* injected name is among the descriptor's required inputs.
C19_CapturedOnce ==
    /\ \A k \in DOMAIN fobjs :
          /\ is_weave(fobjs[k]) =>
                /\ snaps[k].weave = Some(fobjs[k].weave_meta.params)
                /\ DictKeys(fobjs[k].weave_meta.params)
                       \cap Range(fobjs[k].weave_meta.rargs) = {}
          /\ is_refine(fobjs[k]) => snaps[k].refine = Some(fobjs[k].refine_meta.params)
    /\ (res.op \in {"weave", "refine"} /\ res.attached) =>
          res.instances = (IF res.params_from = NoProvider THEN 0 ELSE 1)
    /\ res.op = "run" =>
          /\ res.instances = 0
          /\ snaps[res.target].weave = Some(res.kwargs)

\* a task decorated with a provider has run after the provider's
\* configuration changed, and its function had the injected name as a
\* parameter without default
C19_Witness ==
    /\ res.op = "run"
    /\ res.kwargs # <<>>
    /\ res.kwargs # <<<<9, Scalar(source)>>>>
    /\ 9 \in Range(fobjs[1].required)

\* the step applied @weave to an object carrying a weave descriptor, or
\* @refine to one carrying a refine descriptor
Reapplied ==
    \/ res'.op = "weave" /\ is_weave(fobjs[res'.target])
    \/ res'.op = "refine" /\ is_refine(fobjs[res'.target])

DataFrame(data, index, columns) == [data |-> data, index |-> index, columns |-> columns]

\* pd.DataFrame()
EmptyDataFrame == DataFrame(<<>>, <<>>, <<>>)

cell_input_wins(is_req, is_opt, is_out) ==
    IF is_req THEN "required input"
    ELSE IF is_opt THEN "optional input"
    ELSE IF is_out THEN "Output"
    ELSE ""

\* the if / elif chain of WeaveMatrix.build for one argument of one task
cell(is_req, is_opt, is_out) ==
    IF is_req /\ is_out THEN "required input / Output"
    ELSE IF is_opt /\ is_out THEN "optional input / Output"
    ELSE IF is_req THEN "required input"
    ELSE IF is_opt THEN "optional input"
    ELSE IF is_out THEN "Output"
    ELSE ""

\* WeaveMatrix(task_collection).build()
build(self_tasks) ==
    LET row_names == UNION {Range(self_tasks[j][2].rargs) \cup Range(self_tasks[j][2].oargs)
                              \cup Range(self_tasks[j][2].outputs) : j \in DOMAIN self_tasks}
        rows == SortedSeq(row_names)
        cols == SortedSeq(DictKeys(self_tasks))
        col_values(task_name) ==
            LET meta == self_tasks[DictIdx(self_tasks, task_name)][2]
            IN [r \in DOMAIN rows |-> cell(rows[r] \in Range(meta.rargs),
                                           rows[r] \in Range(meta.oargs),
                                           rows[r] \in Range(meta.outputs))]
    IN IF rows = <<>> /\ cols = <<>> THEN EmptyDataFrame
       ELSE DataFrame([c \in DOMAIN cols |-> <<cols[c], col_values(cols[c])>>], rows, cols)

\* WeaveGraph.build_matrix: the entries of the collector that have "outputs"
weave_only(collector) ==
    SelectSeq(collector, LAMBDA entry : "outputs" \in DOMAIN entry[2])

build_matrix(collector) == build(weave_only(collector))

\* task collections as in the tests of the matrix: names x, y, z are 1, 2, 3
MatrixRecords ==
    {WeaveRecord(SortedSeq(o), SortedSeq(r), SortedSeq(a), <<>>, 1) :
        r \in SUBSET {1, 2}, a \in SUBSET {2, 3}, o \in SUBSET {1, 2, 3}}

TaskCollections ==
    {<<>>} \cup {<<<<11, m>>>> : m \in MatrixRecords}
    \cup {<<<<n[1], m1>>, <<n[2], m2>>>> :
             n \in {<<11, 12>>, <<12, 11>>}, m1 \in MatrixRecords, m2 \in MatrixRecords}

\* WeaveMatrix(task_collection).build(), on its own
BuildMatrix ==
    /\ pc = "off"
    /\ matrix = None
    /\ matrix' = Some(build(task_collection))
    /\ UNCHANGED task_collection
    /\ UNCHANGED <<engine_vars, names_vars, meta_vars, twice_vars, build_vars, deco_vars>>

MatrixStart ==
    /\ EngineIdle
    /\ NamesIdle
    /\ MetaIdle
    /\ TwiceIdle
    /\ BuildIdle
    /\ DecoIdle
    /\ task_collection \in TaskCollections
    /\ matrix = None

MatrixNext == BuildMatrix

SpecMatrix == MatrixStart /\ [][MatrixNext]_vars

\* the cell of the built table for row name arg and column task_name
CellAt(m, arg, task_name) ==
    LET r == CHOOSE k \in DOMAIN m.index : m.index[k] = arg
    IN m.data[DictIdx(m.data, task_name)][2][r]

Roles(arg, meta) ==
    [req |-> arg \in Range(meta.rargs), opt |-> arg \in Range(meta.oargs),
     out |-> arg \in Range(meta.outputs)]

AllNames(collection) ==
    UNION {Range(collection[j][2].rargs) \cup Range(collection[j][2].oargs)
             \cup Range(collection[j][2].outputs) : j \in DOMAIN collection}

C22_InputWins ==
    (pc = "off" /\ matrix # None) =>
        \A j \in DOMAIN task_collection : \A arg \in Range(matrix[1].index) :
            LET is == Roles(arg, task_collection[j][2])
                v == CellAt(matrix[1], arg, task_collection[j][1])
            IN /\ is.req => v = "required input"
               /\ (~is.req /\ is.opt) => v = "optional input"
               /\ (~is.req /\ ~is.opt /\ is.out) => v = "Output"

\* ------------------------------------------- the matrix of a finished run
\* the tasks of test_build_matrix_filters_refine_and_skipped_weaves, and one
\* whose result cannot be merged
GraphPool == {add, skip, mult, touch, total}

\* WeaveGraph(loom).build_matrix() once run() has returned or raised
GraphBuildMatrix ==
    /\ pc \in {"done", "failed"}
    /\ matrix = None
    /\ task_collection' = weave_only(weave_collector)
    /\ matrix' = Some(build_matrix(weave_collector))
    /\ UNCHANGED <<engine_vars, names_vars, meta_vars, twice_vars, build_vars, deco_vars>>

GraphStart ==
    /\ EngineInitOver(GraphPool)
    /\ NamesIdle
    /\ MetaIdle
    /\ TwiceIdle
    /\ BuildIdle
    /\ DecoIdle
    /\ MatrixIdle

GraphNext == Run \/ RunWeaveTask \/ MergeWeave \/ RunRefineTask \/ GraphBuildMatrix

SpecGraph == GraphStart /\ [][GraphNext]_vars

\* the positions of the task list run() got through without raising
Completed == {k \in DOMAIN tasks : k < i}

\* C23: the table of WeaveGraph.build_matrix has a column for exactly the
\* weave tasks that hold a lineage record after the run; refine tasks and
\* weave tasks that returned None have none, a weave task that completed with
\* a result has one, and with no such task the table is empty, without rows
\* or columns.
C23_MatrixColumns ==
    (pc \in {"done", "failed"} /\ matrix # None) =>
        LET m == matrix[1]
            columns == Range(m.columns)
        IN /\ columns = {tasks[k].name : k \in {j \in DOMAIN tasks :
                            /\ is_weave(tasks[j])
                            /\ DictHas(weave_collector, tasks[j].name)}}
           /\ Len(m.columns) = Cardinality(columns)
           /\ \A k \in DOMAIN tasks :
                 /\ ~is_weave(tasks[k]) => tasks[k].name \notin columns
                 /\ (is_weave(tasks[k]) /\ tasks[k].body.ret = "none")
                        => tasks[k].name \notin columns
                 /\ (k \in Completed /\ is_weave(tasks[k]) /\ tasks[k].body.ret # "none")
                        => tasks[k].name \in columns
           /\ columns = {} => (m = EmptyDataFrame /\ m.index = <<>>)

\* a finished run of a weave task and a None-returning weave task, whose
\* matrix shows the first alone
C23_Witness ==
    /\ pc = "done"
    /\ matrix # None
    /\ Len(tasks) = 2
    /\ \E k \in DOMAIN tasks : is_weave(tasks[k]) /\ tasks[k].body.ret = "none"
    /\ Len(matrix[1].columns) = 1
    /\ Len(matrix[1].index) > 1

\* ------------------------------------------------------- column inference
\* the declared required-input names of the weave tasks handed to Loom(...)
RequiredNames ==
    UNION {Range(args.tasks[k].weave_meta.rargs) :
             k \in {j \in DOMAIN args.tasks : is_weave(args.tasks[j])}}

RefineColumns == IF args.refine_columns = None THEN {} ELSE Range(args.refine_columns[1])

\* the table handed in, cut down to the columns named in S
Narrowed(S) ==
    /\ ColumnNames(db0) = S
    /\ db0.index = args.database.table.index
    /\ \A n \in S : TableGet(db0, n) = TableGet(args.database.table, n)

AgainPool == {add, add_sw, skip, scaled, touch, Grow}

\* loom.run() a second time, once the first has returned
RunAgain ==
    /\ run_no = 1
    /\ pc = "done"
    /\ first' = Kept(database, weave_collector, refine_collector)
    /\ run_no' = 2
    /\ pc' = next_pc(1)
    /\ i' = 1
    /\ UNCHANGED <<tasks, database, optionals, global_optionals, weave_collector,
                   refine_collector, pending, err, calls, db0, kept,
                   caller_df, aliased>>
    /\ UNCHANGED <<names_vars, meta_vars, build_vars, deco_vars, matrix_vars>>

AgainStart ==
    /\ EngineInitOver(AgainPool)
    /\ NamesIdle
    /\ MetaIdle
    /\ TwiceIdle
    /\ BuildIdle
    /\ DecoIdle
    /\ MatrixIdle

AgainNext == Run \/ RunWeaveTask \/ MergeWeave \/ RunRefineTask \/ RunAgain

SpecAgain == AgainStart /\ [][AgainNext]_vars

\* the column names one run appended to the table it started from
AddedBy(before, after) == SubSeq(ColumnSeq(after), Len(before.cols) + 1, Len(after.cols))

C26_OutputsDeclared ==
    \A k \in DOMAIN fobjs :
        is_weave(fobjs[k]) =>
            /\ fobjs[k].weave_meta.outputs # <<>>
            /\ \A j \in DOMAIN fobjs[k].weave_meta.outputs :
                  fobjs[k].weave_meta.outputs[j] >= 1

\* ------------------------------------------------- keyword names of a call
\* C27 (as claimed): in every call of a weave task the keyword names passed
\* are among the task's declared required, optional and injected names, and
\* none is passed twice, whatever the override mappings hold.
C27_KeywordNames ==
    \A c \in DOMAIN calls :
        is_weave(tasks[calls[c].idx]) =>
            LET meta == tasks[calls[c].idx].weave_meta
                kr == DictKeys(calls[c].rargs)
                ko == DictKeys(calls[c].oargs)
                kp == DictKeys(calls[c].params)
            IN /\ (kr \cup ko \cup kp)
                    \subseteq (Range(meta.rargs) \cup Range(meta.oargs)
                               \cup DictKeys(meta.params))
               /\ kr \cap ko = {}
               /\ kr \cap kp = {}
               /\ ko \cap kp = {}

\* ------------------------------------------- @weave on objects with identity
\* _dump_object_to_dict(params_from): the __dict__ of a new instance; Config()
\* has z = 7
instance_dict(params_from) == IF params_from = NoProvider THEN <<>> ELSE <<<<9, 7>>>>

\* weave(outputs, params_from=params_from)(f) on objects: outputs is a str
\* (a value) or a reference to an object; the heap, descriptors and callables
\* it leaves, the object the descriptor holds as _outputs, and whether it raised
weave_obj(h, ms, cs, outputs, f, params_from) ==
    LET islist == IsRef(outputs) /\ h[outputs[2]].kind = "list"
        h1 == IF IsRef(outputs) THEN h ELSE Append(h, ListObj(<<outputs[2]>>))
        outs == IF IsRef(outputs) THEN outputs ELSE Ref(Len(h1))
        params == instance_dict(params_from)
        required_args == SelectSeq(f.required, LAMBDA arg : ~DictHas(params, arg))
        h2 == h1 \o <<ListObj(required_args), ListObj(f.optional), DictObj(params)>>
        weave_meta == WeaveMetaObj(Ref(Len(h1) + 1), Ref(Len(h1) + 2), outs,
                                   Ref(Len(h1) + 3), NoneVal)
    IN IF IsRef(outputs) /\ ~islist
       THEN [heap |-> h, metas |-> ms, callables |-> cs, outputs |-> outputs,
             raised |-> TRUE]
       ELSE [heap |-> h2, metas |-> Append(ms, weave_meta),
             callables |-> Append(cs, Callable(Len(ms) + 1, f.fid, f.name)),
             outputs |-> outs, raised |-> FALSE]

NoObjects == [heap |-> <<>>, metas |-> <<>>, callables |-> <<>>]

\* g = weave(outputs, params_from=...)(f): outputs is "s", an object the
\* caller holds, or, for a decorator applied to a further function, the
\* object that decorator already gave a descriptor
Register ==
    /\ Len(derivs) < MaxDerived
    /\ \E f \in {b \in BaseFunctions : ~b.isclass}, params_from \in {NoProvider, Config},
          outputs \in {Val(4)} \cup {Ref(id) : id \in caller.made}
                        \cup {metas[k].attrs["_outputs"] : k \in DOMAIN metas} :
          LET r == weave_obj(heap, metas, callables, outputs, f, params_from)
          IN /\ heap' = r.heap
             /\ metas' = r.metas
             /\ callables' = r.callables
             /\ derivs' = IF r.raised THEN derivs
                          ELSE Append(derivs, [f |-> 0, arg |-> r.outputs[2],
                                               snap |-> r.heap[r.outputs[2]],
                                               result |-> Len(callables) + 1])
             /\ ret' = [NoRet EXCEPT !.op = "weave", !.arg = outputs,
                                     !.b = IF r.raised THEN 0 ELSE Len(callables) + 1,
                                     !.raised = r.raised]
    /\ UNCHANGED <<caller, reads>>
    /\ UNCHANGED <<engine_vars, names_vars, twice_vars, build_vars, deco_vars, matrix_vars>>

RegisterStart ==
    /\ EngineIdle
    /\ NamesIdle
    /\ TwiceIdle
    /\ BuildIdle
    /\ DecoIdle
    /\ MatrixIdle
    /\ MetaInit(NoObjects)

RegisterNext == NewObject \/ Register \/ MutateObject

SpecRegister == RegisterStart /\ [][RegisterNext]_vars

\* the objects a descriptor holds as its list and dict attributes
ContainersOf(meta) ==
    {meta.attrs[n][2] : n \in {x \in ListFields(meta.cls) \cup DictFields(meta.cls) :
                                  IsRef(meta.attrs[x])}}

\* what reading the attribute of the descriptor returns now
ReadNow(meta, name) ==
    LET got == getattribute(heap, meta, name)
    IN got.heap[got.val[2]]

\* C28 (as claimed): whatever the caller does to the objects it holds after
\* registration, reading _outputs of a descriptor returns what the outputs
\* argument held when the task was registered and _params what the provider
\* gave, and no two descriptors hold the same list or dict.
C28_Isolated ==
    /\ \A d \in DOMAIN derivs :
          LET meta == metas[callables[derivs[d].result].meta]
          IN /\ SameContent(ReadNow(meta, "_outputs"), derivs[d].snap)
             /\ ~Mutated(ReadNow(meta, "_params"))
             /\ ContainersOf(meta) \cap caller.made = {}
    /\ \A k, l \in DOMAIN metas :
          k # l => ContainersOf(metas[k]) \cap ContainersOf(metas[l]) = {}

\* ------------------------------------- the same pipeline, columns inferred
\* weave tasks, two of them derived with reweave
InferPool == {add, stats, stats_r, mult_r}

\* Loom(df, tasks, infer_weave_columns=True) over the table and the tasks of
\* an engine whose run() has returned
RebuildInferring ==
    /\ run_no = 1
    /\ pc = "done"
    /\ \E order \in Orderings(infer_columns_from_weaves(SelectSeq(tasks, is_weave))) :
        LET a == [database |-> FrameArg(db0), tasks |-> tasks,
                  optionals |-> OverridesArg("dict", optionals),
                  infer_weave_columns |-> TRUE, refine_columns |-> None,
                  weave_columns |-> None, columns |-> None,
                  kwargs |-> global_optionals]
            made == loom_init(a, order)
        IN /\ args' = a
           /\ pc' = IF made.err # None THEN "rejected" ELSE "idle"
           /\ err' = made.err
           /\ database' = made.database
           /\ kept' = Kept(made.database, <<>>, <<>>)
    /\ first' = Ended
    /\ run_no' = 2
    /\ weave_collector' = <<>>
    /\ refine_collector' = <<>>
    /\ i' = 1
    /\ pending' = NoPending
    /\ calls' = <<>>
    /\ aliased' = FALSE
    /\ UNCHANGED <<tasks, optionals, global_optionals, db0, caller_df>>
    /\ UNCHANGED <<names_vars, meta_vars, deco_vars, matrix_vars>>

InferStart ==
    /\ tasks \in SeqsUpTo(InferPool, MaxTasks)
    /\ database \in InitTables
    /\ db0 = database
    /\ optionals = <<>>
    /\ global_optionals = <<>>
    /\ weave_collector = <<>>
    /\ refine_collector = <<>>
    /\ pc = "idle"
    /\ i = 1
    /\ pending = NoPending
    /\ err = None
    /\ calls = <<>>
    /\ kept = Kept(database, <<>>, <<>>)
    /\ caller_df = database
    /\ aliased = TRUE
    /\ NamesIdle
    /\ MetaIdle
    /\ TwiceIdle
    /\ BuildIdle
    /\ DecoIdle
    /\ MatrixIdle

InferNext == Run \/ RunWeaveTask \/ MergeWeave \/ RebuildInferring

SpecInfer == InferStart /\ [][InferNext]_vars

\* C29 (as claimed): a list of weave tasks that ran without error on a table
\* also runs without error when the engine is built on that table with
\* infer_weave_columns=True, and ends with the same lineage and the same
\* values in every output column.
C29_InferenceKeeps ==
    (run_no = 2 /\ pc \in {"rejected", "failed", "done"} /\ tasks # <<>>) =>
        /\ pc = "done"
        /\ StripTiming(weave_collector) = StripTiming(first.weave_collector)
        /\ \A k \in DOMAIN weave_collector :
              \A n \in Range(weave_collector[k][2].outputs) :
                  TableGet(database, n) = TableGet(first.database, n)

\* ------------------------------------------------ the caller's table object
SharePool == {add, skip, scaled, touch}

\* Loom(df, tasks, **kwargs) once more with the very object df the first
\* engine was given: self.database = database
Share ==
    /\ run_no = 1
    /\ pc = "done"
    /\ first' = Ended
    /\ run_no' = 2
    /\ database' = caller_df
    /\ aliased' = TRUE
    /\ weave_collector' = <<>>
    /\ refine_collector' = <<>>
    /\ pc' = "idle"
    /\ i' = 1
    /\ pending' = NoPending
    /\ err' = None
    /\ calls' = <<>>
    /\ kept' = Kept(caller_df, <<>>, <<>>)
    /\ UNCHANGED <<tasks, optionals, global_optionals, db0, caller_df>>
    /\ UNCHANGED <<names_vars, meta_vars, build_vars, deco_vars, matrix_vars>>

ShareStart ==
    /\ tasks \in SeqsUpTo(SharePool, MaxTasks)
    /\ database \in InitTables
    /\ db0 = database
    /\ optionals = <<>>
    /\ global_optionals \in GlobalChoices
    /\ weave_collector = <<>>
    /\ refine_collector = <<>>
    /\ pc = "idle"
    /\ i = 1
    /\ pending = NoPending
    /\ err = None
    /\ calls = <<>>
    /\ kept = Kept(database, <<>>, <<>>)
    /\ caller_df = database
    /\ aliased = TRUE
    /\ NamesIdle /\ MetaIdle /\ TwiceIdle /\ BuildIdle /\ DecoIdle /\ MatrixIdle

ShareNext == Run \/ RunWeaveTask \/ MergeWeave \/ Share

SpecShare == ShareStart /\ [][ShareNext]_vars

\* C30: with weave tasks only, the table object given to Loom(...) holds at
\* every moment the columns and values it held before construction, and an
\* engine built on it after another engine ran starts from those columns.
C30_CallerTable ==
    /\ caller_df = db0
    /\ aliased => database = db0
    /\ (run_no = 2 /\ pc = "idle") => database = db0

\* two engines built on one table object, both having added columns
C30_Witness ==
    /\ run_no = 2
    /\ pc = "done"
    /\ Len(first.database.cols) > Len(db0.cols)
    /\ Len(database.cols) > Len(db0.cols)
    /\ ~aliased
    /\ caller_df = db0

====
